---- MODULE Spec2Model ----
(***************************************************************************)
(* A model of the job-scraping pipelines of the repository:                *)
(*   UnifiedJobPipeline   (src/unified_job_pipeline.py)                    *)
(*   ImprovedJobPipeline  (src/improved_job_pipeline.py)                   *)
(*   MyCareersFutureScraper (src/final_scraper.py)                         *)
(*   DataRefiner          (src/data_refiner.py)                            *)
(* Each component has its own specification over the shared variables:     *)
(*   SpecEnhance  - step4_llm_enhancement / process_batch_with_llm         *)
(*   SpecRefine   - DataRefiner.remove_duplicates_and_fix_dates            *)
(*   Spec         - the drivers run_complete_pipeline and                  *)
(*                  run_improved_pipeline, and scrape_jobs                 *)
(***************************************************************************)
EXTENDS Integers, Sequences, FiniteSets, TLC

\* ------------------------------------------------------------------ bounds
MaxJobs == 3
MaxBatchSize == 2

\* ------------------------------------------------------------- small helpers
Min(a, b) == IF a < b THEN a ELSE b

Range(s) == {s[k] : k \in 1..Len(s)}

\* Python's None
None == "None"

VARIABLES
    \* ---- step 4 (LLM enhancement), both pipelines
    consolidated_jobs,  \* self.consolidated_jobs
    batch_size,         \* parameter of step4_llm_enhancement
    i,                  \* loop variable of `for i in range(0, len, batch_size)`
    tasks,              \* the asyncio tasks of the current batch: "pending" or a result
    arrival,            \* order in which the tasks of the current batch completed
    request_outcome,    \* what the LLM request issued for input record p did
    gathered,           \* all batch_results so far, concatenated
    enhanced_jobs,      \* self.enhanced_jobs
    failed_jobs,        \* self.failed_jobs
    stats,              \* self.stats
    pc4,                \* position inside step4_llm_enhancement
    \* ---- DataRefiner.remove_duplicates_and_fix_dates
    today,              \* datetime.now().date(), as a day number
    refine_input,       \* the argument `jobs`
    refine_output,      \* the returned deduplicated_jobs
    pcr,                \* "call" before the call, "returned" after it
    \* ---- the pipeline drivers and the scrapers
    prog,               \* which program runs: "unified", "improved" or "final"
    search_urls,        \* parameter search_urls (final: the one url)
    max_pages,          \* parameter max_pages
    max_jobs_per_url,   \* parameter max_jobs_per_url (NoLimit: None)
    start_page,         \* parameter start_page (improved)
    save_to_database,   \* parameter save_to_database
    clear_existing_jobs,\* parameter clear_existing_jobs (unified)
    timestamp,          \* self.timestamp, names the checkpoint files (improved)
    db_jobs,            \* the rows of the jobs table
    store_reads,        \* queries sent to the store by this run
    store_writes,       \* writes sent to the store by this run
    files,              \* the checkpoint files in intermediate/
    prev_crash,         \* the stage in which the run that left the files crashed
    existing_job_hashes,\* self.existing_job_hashes
    existing_urls,      \* self.existing_urls
    snapshot_hashes,    \* the job hashes load_existing_data loaded
    snapshot_urls,      \* the urls load_existing_data loaded
    raw_jobs,           \* self.raw_jobs
    refined_jobs,       \* self.refined_jobs
    jobs_data,          \* MyCareersFutureScraper.jobs_data
    seen_jobs_global,   \* MyCareersFutureScraper.seen_jobs_global
    url_index,          \* loop variable over search_urls (from 1)
    current_page,       \* current_page
    jobs_from_url,      \* jobs_from_url
    pc,                 \* position of the driver
    started,            \* the stages started by this run, in order
    finished,           \* the stages that returned
    raised,             \* the stage that raised, or "none"
    recomputed,         \* stages whose work ran although their checkpoint file existed
    fed_again,          \* where a card already accepted in this run was fed again
    candidates,         \* how many records extract_job_listings returned in this run
    pages_requested,    \* passes of the page loop for the current search url
    errors,             \* the kinds of caught or raised errors met so far
    \* ---- save_to_database and the tables it writes
    jobs_table,         \* the rows of the jobs table
    job_skills_required,\* the rows of job_skills_required, in insertion order
    job_skills_optional,\* the rows of job_skills_optional, in insertion order
    save_pos,           \* how many records of enhanced_jobs the loop has handled
    save_pc,            \* "idle" between runs of save_to_database, "loop" inside one
    clock,              \* datetime.now(), as a counter
    next_id,            \* the id the store gives the next inserted row
    save_runs,          \* how many runs of save_to_database were started
    save_log,           \* what became of each record handed to save_to_database
    latest,             \* per job id, the profile of its last complete save
    \* ---- one call of a function that keeps no state of its own
    call_fn,            \* the function called
    call_arg,           \* its argument
    call_ret,           \* what it returned, or the exception it raised
    call_pc             \* "call" before the call, "returned" after it, "idle"

enhanceVars == <<consolidated_jobs, batch_size, i, tasks, arrival,
                 request_outcome, gathered, enhanced_jobs, failed_jobs, stats, pc4>>

refineVars == <<today, refine_input, refine_output, pcr>>

pipeVars == <<prog, search_urls, max_pages, max_jobs_per_url, start_page,
              save_to_database, clear_existing_jobs, timestamp, db_jobs, store_reads,
              store_writes, files, prev_crash, existing_job_hashes, existing_urls,
              snapshot_hashes, snapshot_urls, raw_jobs, refined_jobs, jobs_data,
              seen_jobs_global, url_index, current_page, jobs_from_url, pc, started,
              finished, raised, recomputed, fed_again, candidates, pages_requested,
              errors>>

saveVars == <<jobs_table, job_skills_required, job_skills_optional, save_pos, save_pc,
              clock, next_id, save_runs, save_log, latest>>

callVars == <<call_fn, call_arg, call_ret, call_pc>>

vars == <<enhanceVars, refineVars, pipeVars, saveVars, callVars>>

\* What the actions of one component leave alone: the other components.
notEnhance == <<refineVars, pipeVars, saveVars, callVars>>
notRefine == <<enhanceVars, pipeVars, saveVars, callVars>>
\* The pipeline drivers use the lists and counters of step 4, not its tasks.
notPipe == <<refineVars, saveVars, callVars, i, tasks, arrival, request_outcome, gathered, pc4>>
\* save_to_database reads enhanced_jobs and writes stats and (never) failed_jobs.
notSave == <<refineVars, pipeVars, callVars, consolidated_jobs, batch_size, i, tasks, arrival,
             request_outcome, gathered, pc4>>

\* Groups of pipeline variables that change together
paramVars == <<prog, search_urls, max_pages, max_jobs_per_url, start_page,
               save_to_database, clear_existing_jobs, timestamp, prev_crash, batch_size>>
storeVars == <<db_jobs, store_reads, store_writes>>
dedupVars == <<existing_job_hashes, existing_urls, snapshot_hashes, snapshot_urls>>
finalVars == <<jobs_data, seen_jobs_global>>
loopVars == <<url_index, current_page, jobs_from_url>>
stageVars == <<started, finished, raised, recomputed>>
listVars == <<refined_jobs, consolidated_jobs, enhanced_jobs, failed_jobs>>
countVars == <<candidates, pages_requested>>

\* The components a specification leaves alone stay in these states.
RefineIdle ==
    /\ today = 0
    /\ refine_input = <<>>
    /\ refine_output = <<>>
    /\ pcr = "idle"

CallIdle ==
    /\ call_fn = "none"
    /\ call_arg = <<>>
    /\ call_ret = <<>>
    /\ call_pc = "idle"

SaveIdle ==
    /\ jobs_table = {}
    /\ job_skills_required = <<>>
    /\ job_skills_optional = <<>>
    /\ save_pos = 0
    /\ save_pc = "idle"
    /\ clock = 0
    /\ next_id = 1
    /\ save_runs = 0
    /\ save_log = <<>>
    /\ latest = {}

PipeIdle ==
    /\ prog = "none"
    /\ search_urls = <<>>
    /\ max_pages = 0
    /\ max_jobs_per_url = 0
    /\ start_page = 0
    /\ save_to_database = FALSE
    /\ clear_existing_jobs = FALSE
    /\ timestamp = 0
    /\ db_jobs = {}
    /\ store_reads = 0
    /\ store_writes = 0
    /\ files = [n \in {"raw_jobs", "refined_jobs", "consolidated_jobs", "enhanced_jobs", "dedup_data"} |->
                  [exists |-> FALSE, ts |-> 0, data |-> <<>>]]
    /\ prev_crash = "none"
    /\ existing_job_hashes = {}
    /\ existing_urls = {}
    /\ snapshot_hashes = {}
    /\ snapshot_urls = {}
    /\ raw_jobs = <<>>
    /\ refined_jobs = <<>>
    /\ jobs_data = <<>>
    /\ seen_jobs_global = {}
    /\ url_index = 0
    /\ current_page = 0
    /\ jobs_from_url = 0
    /\ pc = "idle"
    /\ started = <<>>
    /\ finished = {}
    /\ raised = "none"
    /\ recomputed = {}
    /\ fed_again = {}
    /\ candidates = 0
    /\ pages_requested = 0
    /\ errors = {}

EnhanceIdle ==
    /\ consolidated_jobs = <<>>
    /\ batch_size = 1
    /\ i = 0
    /\ tasks = <<>>
    /\ arrival = <<>>
    /\ request_outcome = <<>>
    /\ gathered = <<>>
    /\ enhanced_jobs = <<>>
    /\ failed_jobs = <<>>
    /\ stats = [raw_scraped |-> 0, refined |-> 0, consolidated |-> 0, enhanced |-> 0,
                database_stored |-> 0, failed |-> 0, duplicates_skipped |-> 0]
    /\ pc4 = "idle"

\* ===========================================================================
\* Step 4: LLM enhancement, parallel-per-record mode
\* ===========================================================================

\* What one chat-completion request can do: answer with a JSON object that is
\* a profile (two different ones, to tell records apart), answer with the
\* empty JSON object, or fail (network error, timeout, malformed JSON: all of
\* them are exceptions raised inside enhance_job_with_llm_async).
Profiles == {"profileA", "profileB"}
LLMOutcomes == Profiles \cup {"emptyObject", "apiError"}

\* A consolidated record; job_hash identifies it.
Job(k) == [job_hash |-> k]
JobList(n) == [k \in 1..n |-> Job(k)]

\* enhance_job_with_llm_async: the request's exception is caught and None is
\* returned; otherwise the parsed JSON is returned.
enhance_job_with_llm_async(o) == IF o = "apiError" THEN None ELSE o

\* asyncio.gather(*tasks, return_exceptions=True): the results in the order of
\* the tasks passed in, whatever order they completed in.
GatherAsCompleted(ts, arr) == [k \in 1..Len(arr) |-> ts[arr[k]]]
gather(ts, arr) == ts

\* process_batch_with_llm, after the gather: an Exception instance becomes None.
ProcessGathered(results) ==
    [k \in 1..Len(results) |->
        IF results[k] = "Exception" THEN None ELSE results[k]]

process_batch_with_llm(ts, arr) == ProcessGathered(gather(ts, arr))

\* Python truthiness of enhanced_data: None and {} are falsy.
Truthy(r) == r \notin {None, "emptyObject"}

EnhancedRecord(job, data) ==
    [job |-> job, enhanced_data |-> data, status |-> "success", error |-> ""]
FailedDropped(job) == <<>>
FailedRecord(job) ==
    <<[job |-> job, enhanced_data |-> None, status |-> "failed",
       error |-> "LLM enhancement failed"]>>

\* The `for job, enhanced_data in zip(batch, batch_results)` loop: what it
\* appends to enhanced_jobs (want = TRUE) or to failed_jobs (want = FALSE).
RECURSIVE ZipLoop(_, _, _, _)
ZipLoop(batch, results, k, want) ==
    IF k > Min(Len(batch), Len(results)) THEN <<>>
    ELSE LET rest == ZipLoop(batch, results, k + 1, want)
         IN  IF Truthy(results[k])
             THEN (IF want THEN <<EnhancedRecord(batch[k], results[k])>> ELSE <<>>) \o rest
             ELSE (IF want THEN <<>> ELSE FailedRecord(batch[k])) \o rest

CurrentBatch == SubSeq(consolidated_jobs, i + 1, Min(i + batch_size, Len(consolidated_jobs)))

\* `batch = self.consolidated_jobs[i:i + batch_size]` and the create_task loop
StartBatch ==
    /\ pc4 = "loop"
    /\ i < Len(consolidated_jobs)
    /\ tasks' = [k \in 1..Len(CurrentBatch) |-> "pending"]
    /\ arrival' = <<>>
    /\ pc4' = "gather"
    /\ UNCHANGED <<consolidated_jobs, batch_size, i, request_outcome, gathered,
                   enhanced_jobs, failed_jobs, stats>>
    /\ UNCHANGED notEnhance

\* One of the concurrent requests completes, in any order
TaskComplete ==
    /\ pc4 = "gather"
    /\ \E k \in 1..Len(tasks), o \in LLMOutcomes :
        /\ tasks[k] = "pending"
        /\ tasks' = [tasks EXCEPT ![k] = enhance_job_with_llm_async(o)]
        /\ arrival' = Append(arrival, k)
        /\ request_outcome' = [request_outcome EXCEPT ![i + k] = o]
    /\ UNCHANGED <<consolidated_jobs, batch_size, i, gathered,
                   enhanced_jobs, failed_jobs, stats, pc4>>
    /\ UNCHANGED notEnhance

\* The gather returns once every task is done; the rest of the loop body runs
GatherBatch ==
    /\ pc4 = "gather"
    /\ \A k \in 1..Len(tasks) : tasks[k] # "pending"
    /\ LET batch_results == process_batch_with_llm(tasks, arrival)
       IN  /\ gathered' = gathered \o batch_results
           /\ enhanced_jobs' = enhanced_jobs \o ZipLoop(CurrentBatch, batch_results, 1, TRUE)
           /\ failed_jobs' = failed_jobs \o ZipLoop(CurrentBatch, batch_results, 1, FALSE)
    /\ i' = i + batch_size
    /\ pc4' = "loop"
    /\ UNCHANGED <<consolidated_jobs, batch_size, tasks, arrival, request_outcome, stats>>
    /\ UNCHANGED notEnhance

\* After the last batch: the counters are written
FinishStep4 ==
    /\ pc4 = "loop"
    /\ i >= Len(consolidated_jobs)
    /\ stats' = [stats EXCEPT !.enhanced = Len(enhanced_jobs), !.failed = Len(failed_jobs)]
    /\ pc4' = "done"
    /\ UNCHANGED <<consolidated_jobs, batch_size, i, tasks, arrival, request_outcome,
                   gathered, enhanced_jobs, failed_jobs>>
    /\ UNCHANGED notEnhance

InitStats == [raw_scraped |-> 0, refined |-> 0, consolidated |-> 0, enhanced |-> 0,
              database_stored |-> 0, failed |-> 0, duplicates_skipped |-> 0]

InitEnhance ==
    /\ consolidated_jobs \in {JobList(n) : n \in 0..MaxJobs}
    /\ batch_size \in 1..MaxBatchSize
    /\ i = 0
    /\ tasks = <<>>
    /\ arrival = <<>>
    /\ request_outcome = [p \in 1..Len(consolidated_jobs) |-> "notIssued"]
    /\ gathered = <<>>
    /\ enhanced_jobs = <<>>
    /\ failed_jobs = <<>>
    /\ stats = InitStats
    /\ pc4 = "loop"
    /\ RefineIdle
    /\ PipeIdle
    /\ SaveIdle
    /\ CallIdle

NextEnhance == StartBatch \/ TaskComplete \/ GatherBatch \/ FinishStep4

SpecEnhance == InitEnhance /\ [][NextEnhance]_vars

\* ---------------------------------------------------------------- claims

\* C1: in parallel-per-record mode the gathered results have one entry per
\* input record handled so far (N at the end), and entry p is the result of
\* the request issued for input record p: its profile (or empty object), or
\* None when that request raised, whatever the completion order.
C1_GatherIndexPaired ==
    /\ Len(gathered) = Min(i, Len(consolidated_jobs))
    /\ pc4 = "done" => Len(gathered) = Len(consolidated_jobs)
    /\ \A p \in 1..Len(gathered) :
        /\ request_outcome[p] = "apiError" => gathered[p] = None
        /\ request_outcome[p] # "apiError" => gathered[p] = request_outcome[p]

\* C1 witness: a batch of two whose second request completed first, the first
\* one raising and the second one returning a profile.
C1_Witness ==
    /\ pc4 = "loop"
    /\ arrival = <<2, 1>>
    /\ Len(gathered) = 2
    /\ request_outcome[1] = "apiError"
    /\ request_outcome[2] = "profileA"
    /\ gathered = <<None, "profileA">>

\* How many entries of a list of result records belong to the job
CountJob(list, job) == Cardinality({k \in 1..Len(list) : list[k].job = job})

\* C2: once step4_llm_enhancement has finished, every consolidated record is
\* in exactly one of enhanced_jobs and failed_jobs: in enhanced_jobs with its
\* profile attached when its request returned a profile, otherwise in
\* failed_jobs with a non-empty error string; the two lengths add up to the
\* number of consolidated records.
C2_EnhancedXorFailed ==
    pc4 = "done" =>
        /\ Len(enhanced_jobs) + Len(failed_jobs) = Len(consolidated_jobs)
        /\ \A p \in 1..Len(consolidated_jobs) :
            LET job == consolidated_jobs[p]
            IN  /\ CountJob(enhanced_jobs, job) + CountJob(failed_jobs, job) = 1
                /\ request_outcome[p] \in Profiles =>
                    \E k \in 1..Len(enhanced_jobs) :
                        /\ enhanced_jobs[k].job = job
                        /\ enhanced_jobs[k].enhanced_data = request_outcome[p]
                /\ request_outcome[p] \notin Profiles =>
                    \E k \in 1..Len(failed_jobs) :
                        /\ failed_jobs[k].job = job
                        /\ failed_jobs[k].error # ""

\* C2 witness: a finished run of three records in which one request raised,
\* one answered the empty object and one returned a profile.
C2_Witness ==
    /\ pc4 = "done"
    /\ Len(consolidated_jobs) = 3
    /\ Len(enhanced_jobs) = 1
    /\ Len(failed_jobs) = 2
    /\ \E p, q \in 1..3 : request_outcome[p] = "apiError" /\ request_outcome[q] = "emptyObject"

\* ===========================================================================
\* DataRefiner: remove_duplicates_and_fix_dates and fix_post_date
\* ===========================================================================

\* Strings are sequences of tokens [w, n]: a word has n = 0, a run of digits is
\* the token "#" with its value, a YYYY-MM-DD date is the token "date" with
\* its day number, an MM/DD/YYYY date the token "mdy" (n < 0: no such date).
Word(w) == [w |-> w, n |-> 0]
Num(n) == [w |-> "#", n |-> n]
DateTok(day) == [w |-> "date", n |-> day]
MdyTok(day) == [w |-> "mdy", n |-> day]

\* date.strftime('%Y-%m-%d')
strftime(day) == <<DateTok(day)>>

\* A scraped_at string is a sequence of numbers, day first and then the time
\* of day; the empty sequence is '' (also the default of a missing key).
\* Python compares strings lexicographically.
RECURSIVE StrLess(_, _)
StrLess(a, b) ==
    IF Len(b) = 0 THEN FALSE
    ELSE IF Len(a) = 0 THEN TRUE
    ELSE IF a[1] # b[1] THEN a[1] < b[1]
    ELSE StrLess(Tail(a), Tail(b))

\* datetime.fromisoformat(scraped_at.replace('Z', '+00:00')).date(), with the
\* fallback to the current date when the string does not parse.
ReferenceDate(scraped_at) == IF Len(scraped_at) >= 1 THEN scraped_at[1] ELSE today

\* Dates are day numbers; date.min, the earliest date Python represents, is
\* MaxDateSpan days before day 0.
MaxDateSpan == 10
date_min == 0 - MaxDateSpan

\* The exception `reference_date - timedelta(...)` raises when the result is
\* before date.min; fix_post_date catches nothing there, so it is what the
\* call ends with.
OverflowError == <<[w |-> "OverflowError", n |-> 0]>>

\* (reference_date - timedelta(days=n)).strftime('%Y-%m-%d')
DateMinus(reference_date, n) ==
    IF reference_date - n < date_min THEN OverflowError ELSE strftime(reference_date - n)

\* `'<unit> ago' in post_date_lower`
ContainsAgo(s, unit) ==
    \E k \in 1..(Len(s) - 1) : s[k].w = unit /\ s[k + 1].w = "ago"

\* re.search(r'(\d+)\s*<unit>s?\s*ago', post_date_lower): the positions of
\* the matches; the first one is used.
AgoMatches(s, unit, units) ==
    {k \in 1..(Len(s) - 2) :
        s[k].w = "#" /\ s[k + 1].w \in {unit, units} /\ s[k + 2].w = "ago"}

FirstOf(S) == CHOOSE k \in S : \A m \in S : k <= m

\* fix_post_date
fix_post_date(job) ==
    LET post_date == job.post_date
        reference_date == ReferenceDate(job.scraped_at)
        fallback == strftime(reference_date)
    IN  IF post_date = <<Word("today")>> THEN strftime(reference_date)
        ELSE IF post_date = <<Word("yesterday")>> THEN DateMinus(reference_date, 1)
        ELSE IF ContainsAgo(post_date, "days")
        THEN LET m == AgoMatches(post_date, "day", "days")
             IN  IF m # {} THEN DateMinus(reference_date, post_date[FirstOf(m)].n)
                 ELSE fallback
        ELSE IF ContainsAgo(post_date, "weeks")
        THEN LET m == AgoMatches(post_date, "week", "weeks")
             IN  IF m # {} THEN DateMinus(reference_date, 7 * post_date[FirstOf(m)].n)
                 ELSE fallback
        ELSE IF ContainsAgo(post_date, "months")
        THEN LET m == AgoMatches(post_date, "month", "months")
             IN  IF m # {} THEN DateMinus(reference_date, 30 * post_date[FirstOf(m)].n)
                 ELSE fallback
        ELSE IF Len(post_date) >= 1 /\ post_date[1].w = "date" THEN post_date
        ELSE IF Len(post_date) >= 1 /\ post_date[1].w = "mdy"
        THEN IF Len(post_date) = 1 /\ post_date[1].n >= 0
             THEN strftime(post_date[1].n)
             ELSE fallback
        ELSE fallback

\* The distinct truthy job_hash values of a list in order of first occurrence:
\* the keys of hash_groups (a dict keeps insertion order).
RECURSIVE HashKeys(_, _)
HashKeys(jobs, seen) ==
    IF jobs = <<>> THEN <<>>
    ELSE LET h == Head(jobs).job_hash
         IN  IF h = "" \/ h \in seen THEN HashKeys(Tail(jobs), seen)
             ELSE <<h>> \o HashKeys(Tail(jobs), seen \cup {h})

\* hash_groups[job_hash]: the jobs of that hash in input order
RECURSIVE HashGroup(_, _)
HashGroup(jobs, h) ==
    IF jobs = <<>> THEN <<>>
    ELSE (IF Head(jobs).job_hash = h THEN <<Head(jobs)>> ELSE <<>>)
         \o HashGroup(Tail(jobs), h)

\* job_group.sort(key=scraped_at, reverse=True)[0]: list.sort is stable also
\* with reverse=True, so the first of the group is the earliest record in
\* input order among those with the greatest scraped_at.
OldestOfGroup(group) ==
    LET best == {k \in 1..Len(group) :
                    \A m \in 1..Len(group) : ~StrLess(group[m].scraped_at, group[k].scraped_at)}
    IN  group[FirstOf(best)]
NewestOfGroup(group) ==
    LET best == {k \in 1..Len(group) :
                    \A m \in 1..Len(group) : ~StrLess(group[k].scraped_at, group[m].scraped_at)}
    IN  group[FirstOf(best)]

\* remove_duplicates_and_fix_dates
remove_duplicates_and_fix_dates(jobs) ==
    LET keys == HashKeys(jobs, {})
    IN  [g \in 1..Len(keys) |->
            LET job_group == HashGroup(jobs, keys[g])
                newest_job == IF Len(job_group) = 1 THEN job_group[1]
                              ELSE NewestOfGroup(job_group)
            IN  [newest_job EXCEPT !.post_date = fix_post_date(newest_job)]]

\* ---- the inputs the check runs over
MaxRefineJobs == 3
RefineHashes == {"", "h1", "h2"}
ScrapedAts == {<<>>, <<1>>, <<1, 5>>, <<2>>}
PostDates == {<<Word("today")>>, <<Word("posted"), Num(3), Word("days"), Word("ago")>>}

\* Input record k carries raw_text k: no two input records are the same.
RefineJobs ==
    UNION {[1..n -> RefineHashes \X ScrapedAts \X PostDates] : n \in 0..MaxRefineJobs}
RefineRecord(k, t) ==
    [raw_text |-> k, job_hash |-> t[1], scraped_at |-> t[2], post_date |-> t[3]]

CallRemoveDuplicates ==
    /\ pcr = "call"
    /\ refine_output' = remove_duplicates_and_fix_dates(refine_input)
    /\ pcr' = "returned"
    /\ UNCHANGED <<today, refine_input>>
    /\ UNCHANGED notRefine

InitRefine ==
    /\ today = 9
    /\ \E f \in RefineJobs : refine_input = [k \in DOMAIN f |-> RefineRecord(k, f[k])]
    /\ refine_output = <<>>
    /\ pcr = "call"
    /\ EnhanceIdle
    /\ PipeIdle
    /\ SaveIdle
    /\ CallIdle

NextRefine == CallRemoveDuplicates

SpecRefine == InitRefine /\ [][NextRefine]_vars

\* C4: remove_duplicates_and_fix_dates returns exactly one record per distinct
\* job_hash of the input; that record is one of the input records of that
\* hash (all its fields but the resolved post_date are that record's own) and
\* no record of its group has a greater scraped_at in string order.
C4_NewestPerHash ==
    pcr = "returned" =>
        /\ \A k \in 1..Len(refine_input) :
            refine_input[k].job_hash # "" =>
                Cardinality({g \in 1..Len(refine_output) :
                    refine_output[g].job_hash = refine_input[k].job_hash}) = 1
        /\ \A g \in 1..Len(refine_output) :
            \E k \in 1..Len(refine_input) :
                /\ refine_input[k].job_hash # ""
                /\ refine_output[g].raw_text = refine_input[k].raw_text
                /\ refine_output[g].job_hash = refine_input[k].job_hash
                /\ refine_output[g].scraped_at = refine_input[k].scraped_at
                /\ refine_output[g].post_date = fix_post_date(refine_input[k])
                /\ \A m \in 1..Len(refine_input) :
                    refine_input[m].job_hash = refine_input[k].job_hash =>
                        ~StrLess(refine_input[k].scraped_at, refine_input[m].scraped_at)

\* C4 witness: three records of one hash, the newest in the middle, and it is
\* the one returned.
C4_Witness ==
    /\ pcr = "returned"
    /\ Len(refine_input) = 3
    /\ \A k \in 1..3 : refine_input[k].job_hash = "h1"
    /\ refine_input[1].scraped_at = <<1>>
    /\ refine_input[2].scraped_at = <<2>>
    /\ refine_input[3].scraped_at = <<1, 5>>
    /\ Len(refine_output) = 1
    /\ refine_output[1].raw_text = 2

\* ===========================================================================
\* The scrapers and the pipeline drivers
\* ===========================================================================

\* `max_jobs_per_url: int = None`
NoLimit == -1

\* ---- bounds of the scraping
MaxPerPage == 2
MaxRawJobs == 2

\* A job card of a listing page, given by what parse_job_text reads from its
\* text and by the href of its link ("" when it has none). kind "error" is a
\* card whose inner_text raises.
Blk(company, title, location, lo, hi, url) ==
    [kind |-> "job", company |-> company, title |-> title, location |-> location,
     job_type |-> "", salary_low |-> lo, salary_high |-> hi, posted_date |-> "",
     url |-> url]

Blocks ==
    { Blk("Acme", "Engineer", "Central", 5000, 7000, "u1"),
      Blk("Acme", "Engineer", "Central", 5000, 7000, "u2"),
      Blk("Acme", "Engineer", "Central", 5000, 7000, ""),
      Blk("Beta", "Analyst", "East", 0, 0, "u1"),
      [Blk("", "", "", 0, 0, "") EXCEPT !.kind = "error"] }

\* What one listing page can show
PageContents == UNION {[1..n -> Blocks] : n \in 0..MaxPerPage}

\* A search url: its path and its page=<N> query parameter, if it has one
SearchUrl(base, has_page, page) == [base |-> base, has_page |-> has_page, page |-> page]
SearchUrlLists ==
    { <<SearchUrl("engineering", TRUE, 0)>>,
      <<SearchUrl("engineering", TRUE, 0), SearchUrl("it", FALSE, 0)>> }

\* update_page_url: page=<N> is replaced when present and appended otherwise
update_page_url(base_url, page_number) ==
    [base |-> base_url.base, has_page |-> TRUE, page |-> page_number]

\* md5 of the joined fields, taken to be free of collisions: the fields.
\* UnifiedJobPipeline.extract_job_listings hashes title, company, location;
\* generate_enhanced_job_hash adds both salary bounds.
JobHash(p, b) ==
    IF p = "unified" THEN <<b.title, b.company, b.location>>
    ELSE <<b.title, b.company, b.location, b.salary_low, b.salary_high>>

\* job_record of extract_job_listings
JobRecord(p, b) ==
    [title |-> b.title, company |-> b.company, location |-> b.location,
     salary_low |-> b.salary_low, salary_high |-> b.salary_high,
     url |-> b.url, job_hash |-> JobHash(p, b)]

\* extract_job_listings: a card whose extraction raises is skipped, and so is
\* one without title or company.
RECURSIVE extract_job_listings(_, _)
extract_job_listings(p, blocks) ==
    IF blocks = <<>> THEN <<>>
    ELSE LET b == Head(blocks)
             rest == extract_job_listings(p, Tail(blocks))
         IN  IF b.kind = "error" \/ b.title = "" \/ b.company = "" THEN rest
             ELSE <<JobRecord(p, b)>> \o rest

\* is_duplicate_job (an md5 hex digest is never empty; url is None or a string)
IsDuplicateByUrlOnly(job, hashes, urls) == job.url # "" /\ job.url \in urls
IsDuplicateByHashOnly(job, hashes, urls) == job.job_hash \in hashes
is_duplicate_job(job, hashes, urls) ==
    \/ job.job_hash \in hashes
    \/ job.url # "" /\ job.url \in urls

\* The dedup loop of ImprovedJobPipeline.step1_raw_scraping over the jobs of
\* one page: unique_jobs, the two sets and the number of duplicates skipped.
RECURSIVE DedupLoop(_, _, _)
DedupLoop(jobs, hashes, urls) ==
    IF jobs = <<>> THEN [unique |-> <<>>, hashes |-> hashes, urls |-> urls, skipped |-> 0]
    ELSE LET job == Head(jobs)
         IN  IF ~is_duplicate_job(job, hashes, urls)
             THEN LET r == DedupLoop(Tail(jobs), hashes \cup {job.job_hash},
                                     IF job.url # "" THEN urls \cup {job.url} ELSE urls)
                  IN  [r EXCEPT !.unique = <<job>> \o @]
             ELSE LET r == DedupLoop(Tail(jobs), hashes, urls)
                  IN  [r EXCEPT !.skipped = @ + 1]

\* `jobs = jobs[:max_jobs_per_url - jobs_from_url]` when the page overshoots
CutToLimit(jobs, limit, so_far) ==
    IF limit # NoLimit /\ so_far + Len(jobs) > limit
    THEN SubSeq(jobs, 1, limit - so_far)
    ELSE jobs

\* ---- MyCareersFutureScraper (final_scraper.py)

\* job_data of extract_job_data
FinalJobData(b) ==
    [company |-> b.company, title |-> b.title, location |-> b.location,
     job_type |-> b.job_type, salary_low |-> b.salary_low, salary_high |-> b.salary_high,
     posted_date |-> b.posted_date, job_url |-> b.url]

LocationKeywords == {"North", "South", "East", "West", "Central", "Singapore", "Islandwide"}
JobTypeKeywords == {"Full Time", "Part Time", "Contract", "Temporary", "Internship", "Permanent"}

\* is_valid_job without its two tests of the company
IsValidIgnoringCompany(job_data) ==
    /\ job_data.company # "" /\ job_data.title # ""
    /\ job_data.title \notin JobTypeKeywords
    /\ \/ job_data.location # ""
       \/ job_data.job_type # ""
       \/ job_data.salary_low # 0 \/ job_data.salary_high # 0
       \/ job_data.posted_date # ""

\* is_valid_job
is_valid_job(job_data) ==
    /\ job_data.company # "" /\ job_data.title # ""
    /\ job_data.company # job_data.title
    /\ job_data.company \notin LocationKeywords
    /\ job_data.title \notin JobTypeKeywords
    /\ \/ job_data.location # ""
       \/ job_data.job_type # ""
       \/ job_data.salary_low # 0 \/ job_data.salary_high # 0
       \/ job_data.posted_date # ""

\* create_job_key: the url when there is one, else company|title
create_job_key(job_data) ==
    IF job_data.job_url # "" THEN <<job_data.job_url>>
    ELSE <<job_data.company, job_data.title>>

\* extract_jobs_from_page: valid jobs, the first of each key within the page
RECURSIVE extract_jobs_from_page(_, _)
extract_jobs_from_page(blocks, seen_jobs) ==
    IF blocks = <<>> THEN <<>>
    ELSE LET b == Head(blocks)
             job_data == FinalJobData(b)
         IN  IF b.kind # "error" /\ is_valid_job(job_data)
                /\ create_job_key(job_data) \notin seen_jobs
             THEN <<job_data>> \o
                  extract_jobs_from_page(Tail(blocks), seen_jobs \cup {create_job_key(job_data)})
             ELSE extract_jobs_from_page(Tail(blocks), seen_jobs)

\* The `for job in page_jobs` loop of scrape_jobs: new_jobs
RECURSIVE NewJobs(_, _)
NewJobs(page_jobs, seen) ==
    IF page_jobs = <<>> THEN <<>>
    ELSE LET job_key == create_job_key(Head(page_jobs))
         IN  IF job_key \notin seen
             THEN <<Head(page_jobs)>> \o NewJobs(Tail(page_jobs), seen \cup {job_key})
             ELSE NewJobs(Tail(page_jobs), seen)

\* ---- the checkpoint files of ImprovedJobPipeline (intermediate/<name>_<timestamp>.pkl)

FileNames == {"raw_jobs", "refined_jobs", "consolidated_jobs", "enhanced_jobs", "dedup_data"}
NoFiles == [n \in FileNames |-> [exists |-> FALSE, ts |-> 0, data |-> <<>>]]

\* os.path.exists(self.<name>_file): the name carries this instance's timestamp
OwnFileExists(name) == files[name].exists /\ files[name].ts = timestamp

\* save_intermediate_data (never raises)
save_intermediate_data(fs, data, name) ==
    [fs EXCEPT ![name] = [exists |-> TRUE, ts |-> timestamp, data |-> data]]

\* load_intermediate_data: the pickled data, or None when there is no such file
load_intermediate_data(name) ==
    IF OwnFileExists(name) THEN <<files[name].data>> ELSE <<>>

\* ---- the jobs table

Row(job_hash, url, recent) == [job_hash |-> job_hash, url |-> url, recent |-> recent]

\* The rows load_existing_data selects: created_at >= now - days_back
RecentRows(db) == {r \in db : r.recent}

\* The upsert loop of save_to_database / save_jobs_to_database over
\* enhanced_jobs: update by job_hash when check_existing_job finds a row,
\* insert (with created_at = now) otherwise.
RECURSIVE Upsert(_, _)
Upsert(db, jobs) ==
    IF jobs = <<>> THEN db
    ELSE LET job == Head(jobs).job
             existing_job == {r \in db : r.job_hash = job.job_hash}
         IN  Upsert((db \ existing_job)
                      \cup (IF existing_job # {}
                            THEN {[r EXCEPT !.url = job.url] : r \in existing_job}
                            ELSE {Row(job.job_hash, job.url, TRUE)}),
                    Tail(jobs))

\* ---- the stages

StageOrder == <<"Scrape", "Refine", "Consolidate", "Enhance", "Persist">>
StageIndex(stage) == CHOOSE k \in 1..Len(StageOrder) : StageOrder[k] = stage

\* `except Exception as e: ... raise` of both drivers: the run is over
ContinueAfterRaise(stage) ==
    IF stage = "Persist" THEN "Report" ELSE StageOrder[StageIndex(stage) + 1]
AfterRaise(stage) == "Failed"

\* `if not success: ... return` of run_complete_pipeline
ClearFailedContinues == "Scrape"
AfterClearFailed == "Aborted"

\* A refinement that computes job_hash again, from company, title and the
\* salary range
RefineRehashing(job) ==
    IF job.title = "" \/ job.company = "" THEN <<>>
    ELSE <<[job EXCEPT !.job_hash = <<job.company, job.title, job.salary_low, job.salary_high>>]>>

\* refine_single_job of the two pipelines: None (here <<>>) without title or
\* company; otherwise the record with its fields stripped, salary_low and
\* salary_high copied as they are
refine_single_job(job) ==
    IF job.title = "" \/ job.company = "" THEN <<>> ELSE <<job>>

\* step2_data_refinement: the first record of each job_hash, refined
RECURSIVE step2_data_refinement(_, _)
step2_data_refinement(jobs, seen_hashes) ==
    IF jobs = <<>> THEN <<>>
    ELSE LET job == Head(jobs)
         IN  IF job.job_hash \notin seen_hashes
             THEN refine_single_job(job)
                    \o step2_data_refinement(Tail(jobs), seen_hashes \cup {job.job_hash})
             ELSE step2_data_refinement(Tail(jobs), seen_hashes)

\* The batch loop of step4_llm_enhancement over all of consolidated_jobs,
\* request p answering outcomes[p]; the tasks of a batch complete last first.
RECURSIVE Step4Loop(_, _, _, _, _)
Step4Loop(jobs, outcomes, from, size, want) ==
    IF from >= Len(jobs) THEN <<>>
    ELSE LET batch == SubSeq(jobs, from + 1, Min(from + size, Len(jobs)))
             ts == [k \in 1..Len(batch) |-> enhance_job_with_llm_async(outcomes[from + k])]
             arr == [k \in 1..Len(batch) |-> Len(batch) + 1 - k]
             batch_results == process_batch_with_llm(ts, arr)
         IN  ZipLoop(batch, batch_results, 1, want)
               \o Step4Loop(jobs, outcomes, from + size, size, want)

\* ---- the runs explored

MaxPages == 2

BlockA1 == Blk("Acme", "Engineer", "Central", 5000, 7000, "u1")
BlockA2 == Blk("Acme", "Engineer", "Central", 5000, 7000, "u2")
BlockB1 == Blk("Beta", "Analyst", "East", 0, 0, "u1")

FinalUrls == { <<SearchUrl("search", TRUE, 0)>>, <<SearchUrl("search", FALSE, 0)>> }

\* The jobs table before the run: empty, or a row of the last days and an
\* older one.
Stores(p) ==
    { {},
      { Row(JobHash(p, BlockB1), "u2", TRUE), Row(JobHash(p, BlockA1), "u1", FALSE) } }

\* What an earlier run of ImprovedJobPipeline that crashed left in
\* intermediate/: nothing (no earlier run), or the checkpoints of the stages
\* it had finished, written under its own timestamp 1.
PrevRaw == <<JobRecord("improved", BlockA1)>>
PrevFile(data) == [exists |-> TRUE, ts |-> 1, data |-> data]
CrashedRuns ==
    { [prev_crash |-> "none", files |-> NoFiles],
      [prev_crash |-> "Scrape",
       files |-> [NoFiles EXCEPT !["dedup_data"] = PrevFile(<<>>)]],
      [prev_crash |-> "Consolidate",
       files |-> [NoFiles EXCEPT !["dedup_data"] = PrevFile(<<>>),
                                 !["raw_jobs"] = PrevFile(PrevRaw),
                                 !["refined_jobs"] = PrevFile(step2_data_refinement(PrevRaw, {}))]] }

Init ==
    /\ prog \in {"unified", "improved", "final"}
    /\ search_urls \in (IF prog = "final" THEN FinalUrls ELSE SearchUrlLists)
    /\ max_pages \in 1..MaxPages
    /\ max_jobs_per_url \in (IF prog = "final" THEN {NoLimit} ELSE {NoLimit, 1})
    /\ start_page = 0
    /\ save_to_database \in (IF prog = "final" THEN {FALSE} ELSE BOOLEAN)
    /\ clear_existing_jobs \in (IF prog = "unified" THEN BOOLEAN ELSE {FALSE})
    /\ \E run \in (IF prog = "improved" THEN CrashedRuns ELSE {[prev_crash |-> "none", files |-> NoFiles]}) :
        /\ prev_crash = run.prev_crash
        /\ files = run.files
    \* a restarted process has a later timestamp, unless it is constructed
    \* within the same second
    /\ timestamp \in (IF prev_crash = "none" THEN {2} ELSE {1, 2})
    \* restarted runs are explored with one search url and one page
    /\ prev_crash # "none" =>
          /\ search_urls = <<SearchUrl("engineering", TRUE, 0)>>
          /\ max_pages = 1
          /\ max_jobs_per_url = NoLimit
    /\ db_jobs \in (IF prog = "final" THEN {{}} ELSE Stores(prog))
    /\ store_reads = 0
    /\ store_writes = 0
    /\ existing_job_hashes = {}
    /\ existing_urls = {}
    /\ snapshot_hashes = {}
    /\ snapshot_urls = {}
    /\ raw_jobs = <<>>
    /\ refined_jobs = <<>>
    /\ jobs_data = <<>>
    /\ seen_jobs_global = {}
    /\ url_index = 0
    /\ current_page = 0
    /\ jobs_from_url = 0
    /\ pc = (IF prog = "unified" THEN "Clear" ELSE IF prog = "improved" THEN "Load" ELSE "FinalStart")
    /\ started = <<>>
    /\ finished = {}
    /\ raised = "none"
    /\ recomputed = {}
    /\ fed_again = {}
    /\ candidates = 0
    /\ pages_requested = 0
    /\ errors = {}
    /\ consolidated_jobs = <<>>
    /\ enhanced_jobs = <<>>
    /\ failed_jobs = <<>>
    /\ stats = InitStats
    /\ batch_size = MaxBatchSize
    /\ i = 0
    /\ tasks = <<>>
    /\ arrival = <<>>
    /\ request_outcome = <<>>
    /\ gathered = <<>>
    /\ pc4 = "idle"
    /\ RefineIdle
    /\ SaveIdle
    /\ CallIdle

\* A stage starts: it is recorded, and so is whether its own checkpoint file
\* was there to take its output from.
StartStage(stage, file) ==
    /\ started' = Append(started, stage)
    /\ recomputed' = (IF prog = "improved" /\ OwnFileExists(file)
                      THEN recomputed \cup {stage} ELSE recomputed)

\* ---- run_complete_pipeline, step 0

\* clear_all_jobs returns True (the rows are deleted) or False (the delete
\* raised and was caught)
ClearExistingJobs ==
    /\ prog = "unified" /\ pc = "Clear"
    /\ clear_existing_jobs
    /\ \/ /\ db_jobs' = {}
          /\ store_writes' = store_writes + 1
          /\ pc' = "Scrape"
          /\ UNCHANGED errors
       \/ /\ errors' = errors \cup {"clear"}
          /\ pc' = AfterClearFailed
          /\ UNCHANGED <<db_jobs, store_writes>>
    /\ UNCHANGED <<paramVars, store_reads, files, dedupVars, raw_jobs, finalVars, loopVars,
                   stageVars, listVars, stats, fed_again, countVars>>
    /\ UNCHANGED notPipe

SkipClear ==
    /\ prog = "unified" /\ pc = "Clear"
    /\ ~clear_existing_jobs
    /\ pc' = "Scrape"
    /\ UNCHANGED <<paramVars, storeVars, files, dedupVars, raw_jobs, finalVars, loopVars,
                   stageVars, listVars, stats, fed_again, countVars, errors>>
    /\ UNCHANGED notPipe

\* ---- run_improved_pipeline, step 0 and the resume check

\* load_existing_data: one query; when it raises nothing is loaded
LoadExistingData ==
    /\ prog = "improved" /\ pc = "Load"
    /\ store_reads' = store_reads + 1
    /\ \/ /\ existing_job_hashes' = existing_job_hashes \cup {r.job_hash : r \in RecentRows(db_jobs)}
          /\ existing_urls' = existing_urls \cup {r.url : r \in {q \in RecentRows(db_jobs) : q.url # ""}}
          /\ snapshot_hashes' = existing_job_hashes'
          /\ snapshot_urls' = existing_urls'
          /\ files' = save_intermediate_data(files, <<>>, "dedup_data")
          /\ UNCHANGED errors
       \/ /\ errors' = errors \cup {"load"}
          /\ UNCHANGED <<dedupVars, files>>
    /\ pc' = "Checkpoint"
    /\ UNCHANGED <<paramVars, db_jobs, store_writes, raw_jobs, finalVars, loopVars,
                   stageVars, listVars, stats, fed_again, countVars>>
    /\ UNCHANGED notPipe

\* `raw_jobs_data = self.load_intermediate_data(self.raw_jobs_file)`, not None
ResumeFromCheckpoint ==
    /\ prog = "improved" /\ pc = "Checkpoint"
    /\ load_intermediate_data("raw_jobs") # <<>>
    /\ raw_jobs' = load_intermediate_data("raw_jobs")[1]
    /\ stats' = [stats EXCEPT !.raw_scraped = Len(raw_jobs')]
    /\ pc' = "Refine"
    /\ UNCHANGED <<paramVars, storeVars, files, dedupVars, finalVars, loopVars,
                   stageVars, listVars, fed_again, countVars, errors>>
    /\ UNCHANGED notPipe

NoCheckpoint ==
    /\ prog = "improved" /\ pc = "Checkpoint"
    /\ load_intermediate_data("raw_jobs") = <<>>
    /\ pc' = "Scrape"
    /\ UNCHANGED <<paramVars, storeVars, files, dedupVars, raw_jobs, finalVars, loopVars,
                   stageVars, listVars, stats, fed_again, countVars, errors>>
    /\ UNCHANGED notPipe

\* ---- step1_raw_scraping of both pipelines

\* `async with async_playwright() ... browser = await p.firefox.launch(...)`,
\* outside the try: the launch can raise
BeginScrape ==
    /\ prog \in {"unified", "improved"} /\ pc = "Scrape"
    /\ StartStage("Scrape", "raw_jobs")
    /\ \/ /\ url_index' = 1
          /\ pc' = "Url"
          /\ UNCHANGED <<raised, errors>>
       \/ /\ errors' = errors \cup {"launch"}
          /\ raised' = "Scrape"
          /\ pc' = AfterRaise("Scrape")
          /\ UNCHANGED url_index
    /\ UNCHANGED <<paramVars, storeVars, files, dedupVars, raw_jobs, finalVars,
                   current_page, jobs_from_url, finished, listVars, stats, fed_again, countVars>>
    /\ UNCHANGED notPipe

\* `await page.goto(search_url, ...)` at the head of the url loop: an error
\* or timeout is caught nowhere in step1_raw_scraping
GotoSearchUrl ==
    /\ prog \in {"unified", "improved"} /\ pc = "Url"
    /\ url_index <= Len(search_urls)
    /\ \/ /\ current_page' = start_page
          /\ jobs_from_url' = 0
          /\ pages_requested' = 0
          /\ pc' = "Page"
          /\ UNCHANGED <<raised, errors>>
       \/ /\ errors' = errors \cup {"nav"}
          /\ raised' = "Scrape"
          /\ pc' = AfterRaise("Scrape")
          /\ UNCHANGED <<current_page, jobs_from_url, pages_requested>>
    /\ UNCHANGED <<paramVars, storeVars, files, dedupVars, raw_jobs, finalVars, url_index,
                   started, finished, recomputed, listVars, stats, fed_again, candidates>>
    /\ UNCHANGED notPipe

\* A `while` condition without `current_page < start_page + max_pages`
CapOnlyCondition ==
    max_jobs_per_url = NoLimit \/ jobs_from_url < max_jobs_per_url

\* The condition of the `while` over the pages of one search url
PageLoopCondition ==
    /\ current_page < start_page + max_pages
    /\ max_jobs_per_url = NoLimit \/ jobs_from_url < max_jobs_per_url

\* `if page_url != search_url or current_page > start_page`
NeedsNavigation ==
    \/ update_page_url(search_urls[url_index], current_page) # search_urls[url_index]
    \/ current_page > start_page

\* Where the cards of a page had been fed before: twice on this page, on an
\* earlier page of this search url, or under an earlier search url
FedAgain(content, accepted, from_url) ==
    LET recs == {JobRecord(prog, content[k]) :
                    k \in {j \in 1..Len(content) : content[j].kind = "job"}}
        earlier == {accepted[k] : k \in 1..(Len(accepted) - from_url)}
        this_url == {accepted[k] : k \in (Len(accepted) - from_url + 1)..Len(accepted)}
    IN  (IF \E j, k \in 1..Len(content) : j < k /\ content[j] = content[k]
                                          /\ content[j].kind = "job"
         THEN {"same_page"} ELSE {})
        \cup (IF recs \cap this_url # {} THEN {"later_page"} ELSE {})
        \cup (IF recs \cap earlier # {} THEN {"other_url"} ELSE {})

\* One pass of the page loop: navigate, extract, (improved) drop duplicates,
\* cut to the limit, extend raw_jobs, and break or go on to the next page
ScrapePage ==
    /\ prog \in {"unified", "improved"} /\ pc = "Page"
    /\ PageLoopCondition
    /\ \/ \* page.goto / wait_for_load_state raises
          /\ NeedsNavigation
          /\ errors' = errors \cup {"nav"}
          /\ raised' = "Scrape"
          /\ pc' = AfterRaise("Scrape")
          /\ pages_requested' = pages_requested + 1
          /\ UNCHANGED <<existing_job_hashes, existing_urls, raw_jobs, loopVars, stats,
                         fed_again, candidates>>
       \/ \E content \in PageContents, selectors_ok \in BOOLEAN :
            LET shown == IF selectors_ok THEN content ELSE <<>>
                jobs == extract_job_listings(prog, shown)
                d == IF prog = "improved"
                     THEN DedupLoop(jobs, existing_job_hashes, existing_urls)
                     ELSE [unique |-> jobs, hashes |-> existing_job_hashes,
                           urls |-> existing_urls, skipped |-> 0]
                unique_jobs == CutToLimit(d.unique, max_jobs_per_url, jobs_from_url)
            IN  /\ selectors_ok \/ content = <<>>
                /\ Len(raw_jobs) + Len(unique_jobs) <= MaxRawJobs
                /\ errors' = errors
                      \cup (IF ~selectors_ok \/ \E k \in 1..Len(content) : content[k].kind = "error"
                            THEN {"extract"} ELSE {})
                /\ existing_job_hashes' = d.hashes
                /\ existing_urls' = d.urls
                /\ stats' = [stats EXCEPT !.duplicates_skipped = @ + d.skipped]
                /\ raw_jobs' = raw_jobs \o unique_jobs
                /\ jobs_from_url' = jobs_from_url + Len(unique_jobs)
                /\ fed_again' = fed_again \cup FedAgain(shown, raw_jobs, jobs_from_url)
                /\ candidates' = candidates + Len(jobs)
                /\ pages_requested' = pages_requested + 1
                /\ IF max_jobs_per_url # NoLimit /\ jobs_from_url' >= max_jobs_per_url
                   THEN /\ url_index' = url_index + 1
                        /\ pc' = "Url"
                        /\ UNCHANGED current_page
                   ELSE /\ current_page' = current_page + 1
                        /\ UNCHANGED <<url_index, pc>>
                /\ UNCHANGED raised
    /\ UNCHANGED <<paramVars, storeVars, files, snapshot_hashes, snapshot_urls, finalVars,
                   started, finished, recomputed, listVars>>
    /\ UNCHANGED notPipe

\* The page loop ends: on to the next search url
ExitPageLoop ==
    /\ prog \in {"unified", "improved"} /\ pc = "Page"
    /\ ~PageLoopCondition
    /\ url_index' = url_index + 1
    /\ pc' = "Url"
    /\ UNCHANGED <<paramVars, storeVars, files, dedupVars, raw_jobs, finalVars,
                   current_page, jobs_from_url, stageVars, listVars, stats, fed_again, countVars, errors>>
    /\ UNCHANGED notPipe

\* After the last search url: the counter, and the raw_jobs checkpoint
FinishScrape ==
    /\ prog \in {"unified", "improved"} /\ pc = "Url"
    /\ url_index > Len(search_urls)
    /\ stats' = [stats EXCEPT !.raw_scraped = Len(raw_jobs)]
    /\ files' = (IF prog = "improved"
                 THEN save_intermediate_data(files, raw_jobs, "raw_jobs") ELSE files)
    /\ finished' = finished \cup {"Scrape"}
    /\ pc' = "Refine"
    /\ UNCHANGED <<paramVars, storeVars, dedupVars, raw_jobs, finalVars, loopVars,
                   started, raised, recomputed, listVars, fed_again, countVars, errors>>
    /\ UNCHANGED notPipe

\* ---- steps 2 to 5 and the report

\* step2_data_refinement (no await, nothing that raises on these records)
Refine ==
    /\ prog \in {"unified", "improved"} /\ pc = "Refine"
    /\ StartStage("Refine", "refined_jobs")
    /\ refined_jobs' = step2_data_refinement(raw_jobs, {})
    /\ stats' = [stats EXCEPT !.refined = Len(refined_jobs')]
    /\ files' = (IF prog = "improved"
                 THEN save_intermediate_data(files, refined_jobs', "refined_jobs") ELSE files)
    /\ finished' = finished \cup {"Refine"}
    /\ pc' = "Consolidate"
    /\ UNCHANGED <<paramVars, storeVars, dedupVars, raw_jobs, finalVars, loopVars, raised,
                   consolidated_jobs, enhanced_jobs, failed_jobs, fed_again, countVars, errors>>
    /\ UNCHANGED notPipe

\* What the loop of step3_job_consolidation appends for a job whose page
\* scrape raised nothing (the description it gets is not part of the state)
ConsolidatedFromPage(job) == <<job>>

\* A loop that appends nothing in its `except Exception` branch
DroppedOnFailure(job) == <<>>

\* What the `except Exception` branch appends: the copy of the job with its
\* raw_text as description
ConsolidatedOnFailure(job) == <<job>>

\* What the `if not job.get('url')` branch appends
ConsolidatedWithoutUrl(job) == <<job>>

\* The `for i, job in enumerate(self.refined_jobs)` loop; outcomes[k] tells
\* whether the page scrape of job k raises
RECURSIVE ConsolidationLoop(_, _, _)
ConsolidationLoop(jobs, outcomes, k) ==
    IF k > Len(jobs) THEN <<>>
    ELSE (IF jobs[k].url = "" THEN ConsolidatedWithoutUrl(jobs[k])
          ELSE IF outcomes[k] = "ok" THEN ConsolidatedFromPage(jobs[k])
          ELSE ConsolidatedOnFailure(jobs[k]))
         \o ConsolidationLoop(jobs, outcomes, k + 1)

\* step3_job_consolidation: the browser launch can raise; an error on a job's
\* own page is caught inside the loop
Consolidate ==
    /\ prog \in {"unified", "improved"} /\ pc = "Consolidate"
    /\ StartStage("Consolidate", "consolidated_jobs")
    /\ \/ /\ \E outcomes \in [1..Len(refined_jobs) -> {"ok", "raises"}] :
               /\ consolidated_jobs' = consolidated_jobs
                                          \o ConsolidationLoop(refined_jobs, outcomes, 1)
               /\ errors' = errors
                     \cup (IF \E k \in 1..Len(refined_jobs) :
                                 refined_jobs[k].url # "" /\ outcomes[k] = "raises"
                           THEN {"job_page"} ELSE {})
          /\ stats' = [stats EXCEPT !.consolidated = Len(consolidated_jobs')]
          /\ files' = (IF prog = "improved"
                       THEN save_intermediate_data(files, consolidated_jobs', "consolidated_jobs")
                       ELSE files)
          /\ finished' = finished \cup {"Consolidate"}
          /\ pc' = "Enhance"
          /\ UNCHANGED raised
       \/ /\ errors' = errors \cup {"launch"}
          /\ raised' = "Consolidate"
          /\ pc' = AfterRaise("Consolidate")
          /\ UNCHANGED <<consolidated_jobs, stats, files, finished>>
    /\ UNCHANGED <<paramVars, storeVars, dedupVars, raw_jobs, finalVars, loopVars,
                   refined_jobs, enhanced_jobs, failed_jobs, fed_again, countVars>>
    /\ UNCHANGED notPipe

\* step4_llm_enhancement, every request answering a profile or raising
Enhance ==
    /\ prog \in {"unified", "improved"} /\ pc = "Enhance"
    /\ StartStage("Enhance", "enhanced_jobs")
    /\ \E outcomes \in [1..Len(consolidated_jobs) -> {"profileA", "apiError"}] :
        /\ enhanced_jobs' = enhanced_jobs
              \o Step4Loop(consolidated_jobs, outcomes, 0, batch_size, TRUE)
        /\ failed_jobs' = failed_jobs
              \o Step4Loop(consolidated_jobs, outcomes, 0, batch_size, FALSE)
    /\ stats' = [stats EXCEPT !.enhanced = Len(enhanced_jobs'), !.failed = Len(failed_jobs')]
    /\ files' = (IF prog = "improved"
                 THEN save_intermediate_data(files, enhanced_jobs', "enhanced_jobs") ELSE files)
    /\ finished' = finished \cup {"Enhance"}
    /\ pc' = "Persist"
    /\ UNCHANGED <<paramVars, storeVars, dedupVars, raw_jobs, finalVars, loopVars, raised,
                   refined_jobs, consolidated_jobs, fed_again, countVars, errors>>
    /\ UNCHANGED notPipe

\* The writes of the upsert loop: with the store up every record is stored,
\* with the store down every request raises and is caught
StoreJobs(store_up) ==
    /\ store_reads' = store_reads + Len(enhanced_jobs)
    /\ store_writes' = store_writes + Len(enhanced_jobs)
    /\ db_jobs' = (IF store_up THEN Upsert(db_jobs, enhanced_jobs) ELSE db_jobs)
    /\ stats' = (IF store_up
                 THEN [stats EXCEPT !.database_stored = @ + Len(enhanced_jobs)] ELSE stats)

\* step5_storage of UnifiedJobPipeline: save_to_json (open() can raise), then
\* save_to_database when asked to
PersistUnified ==
    /\ prog = "unified" /\ pc = "Persist"
    /\ StartStage("Persist", "enhanced_jobs")
    /\ \/ /\ \E store_up \in BOOLEAN :
                IF save_to_database THEN StoreJobs(store_up)
                ELSE store_up /\ UNCHANGED <<storeVars, stats>>
          /\ finished' = finished \cup {"Persist"}
          /\ pc' = "Report"
          /\ UNCHANGED <<raised, errors>>
       \/ /\ errors' = errors \cup {"json"}
          /\ raised' = "Persist"
          /\ pc' = AfterRaise("Persist")
          /\ UNCHANGED <<storeVars, stats, finished>>
    /\ UNCHANGED <<paramVars, files, dedupVars, raw_jobs, finalVars, loopVars,
                   listVars, fed_again, countVars>>
    /\ UNCHANGED notPipe

\* `if save_to_database: await self.save_jobs_to_database()` of
\* run_improved_pipeline
PersistImproved ==
    /\ prog = "improved" /\ pc = "Persist"
    /\ save_to_database
    /\ StartStage("Persist", "enhanced_jobs")
    /\ \E store_up \in BOOLEAN : StoreJobs(store_up)
    /\ finished' = finished \cup {"Persist"}
    /\ pc' = "Report"
    /\ UNCHANGED <<paramVars, files, dedupVars, raw_jobs, finalVars, loopVars, raised,
                   listVars, fed_again, countVars, errors>>
    /\ UNCHANGED notPipe

SkipPersist ==
    /\ prog = "improved" /\ pc = "Persist"
    /\ ~save_to_database
    /\ pc' = "Report"
    /\ UNCHANGED <<paramVars, storeVars, files, dedupVars, raw_jobs, finalVars, loopVars,
                   stageVars, listVars, stats, fed_again, countVars, errors>>
    /\ UNCHANGED notPipe

\* print_final_report, and the normal return
PrintFinalReport ==
    /\ prog \in {"unified", "improved"} /\ pc = "Report"
    /\ pc' = "Completed"
    /\ UNCHANGED <<paramVars, storeVars, files, dedupVars, raw_jobs, finalVars, loopVars,
                   stageVars, listVars, stats, fed_again, countVars, errors>>
    /\ UNCHANGED notPipe

\* ---- MyCareersFutureScraper.scrape_jobs

\* The launch (outside the try) and the first page.goto (inside it)
FinalBegin ==
    /\ prog = "final" /\ pc = "FinalStart"
    /\ \/ /\ current_page' = 0
          /\ pc' = "FinalPage"
          /\ UNCHANGED <<raised, errors>>
       \/ /\ errors' = errors \cup {"nav"}
          /\ pc' = "returned"
          /\ UNCHANGED <<raised, current_page>>
       \/ /\ errors' = errors \cup {"launch"}
          /\ raised' = "scrape_jobs"
          /\ pc' = "Failed"
          /\ UNCHANGED current_page
    /\ UNCHANGED <<paramVars, storeVars, files, dedupVars, raw_jobs, finalVars, url_index,
                   jobs_from_url, started, finished, recomputed, listVars, stats, fed_again, countVars>>
    /\ UNCHANGED notPipe

\* One pass of `while current_page < max_pages`; the `except Exception` that
\* catches a navigation error encloses the whole loop
FinalScrapePage ==
    /\ prog = "final" /\ pc = "FinalPage"
    /\ current_page < max_pages
    /\ \/ /\ update_page_url(search_urls[1], current_page) # search_urls[1]
          /\ errors' = errors \cup {"nav"}
          /\ pc' = "returned"
          /\ UNCHANGED <<finalVars, current_page, fed_again>>
       \/ \E content \in PageContents, selectors_ok \in BOOLEAN :
            LET shown == IF selectors_ok THEN content ELSE <<>>
                page_jobs == extract_jobs_from_page(shown, {})
                new_jobs == NewJobs(page_jobs, seen_jobs_global)
            IN  /\ selectors_ok \/ content = <<>>
                /\ Len(jobs_data) + Len(new_jobs) <= MaxRawJobs
                /\ errors' = errors
                      \cup (IF ~selectors_ok \/ \E k \in 1..Len(content) : content[k].kind = "error"
                            THEN {"extract"} ELSE {})
                /\ seen_jobs_global' = seen_jobs_global
                      \cup {create_job_key(new_jobs[k]) : k \in 1..Len(new_jobs)}
                /\ jobs_data' = jobs_data \o new_jobs
                /\ fed_again' = fed_again
                      \cup (IF \E j, k \in 1..Len(shown) : j < k /\ shown[j] = shown[k]
                                                          /\ shown[j].kind = "job"
                            THEN {"same_page"} ELSE {})
                      \cup (IF \E k \in 1..Len(shown) :
                                  shown[k].kind = "job" /\ FinalJobData(shown[k]) \in Range(jobs_data)
                            THEN {"later_page"} ELSE {})
                /\ current_page' = current_page + 1
                /\ UNCHANGED pc
    /\ UNCHANGED <<paramVars, storeVars, files, dedupVars, raw_jobs, url_index, jobs_from_url,
                   stageVars, listVars, stats, countVars>>
    /\ UNCHANGED notPipe

\* The loop ends and jobs_data is returned
FinalReturn ==
    /\ prog = "final" /\ pc = "FinalPage"
    /\ current_page >= max_pages
    /\ pc' = "returned"
    /\ UNCHANGED <<paramVars, storeVars, files, dedupVars, raw_jobs, finalVars, loopVars,
                   stageVars, listVars, stats, fed_again, countVars, errors>>
    /\ UNCHANGED notPipe

Next ==
    \/ ClearExistingJobs \/ SkipClear
    \/ LoadExistingData \/ ResumeFromCheckpoint \/ NoCheckpoint
    \/ BeginScrape \/ GotoSearchUrl \/ ScrapePage \/ ExitPageLoop \/ FinishScrape
    \/ Refine \/ Consolidate \/ Enhance
    \/ PersistUnified \/ PersistImproved \/ SkipPersist \/ PrintFinalReport
    \/ FinalBegin \/ FinalScrapePage \/ FinalReturn

Spec == Init /\ [][Next]_vars


\* ---------------------------------------------------------------- claims

\* The list a scraper accepts records into
Accepted == IF prog = "final" THEN jobs_data ELSE raw_jobs
AcceptedUrl(rec) == IF prog = "final" THEN rec.job_url ELSE rec.url

C5_UrlVariantsYieldOne ==
    prog \in {"improved", "final"} =>
        \A j, k \in 1..Len(Accepted) : j < k =>
            ~ /\ Accepted[j].company = Accepted[k].company
              /\ Accepted[j].title = Accepted[k].title
              /\ Accepted[j].salary_low = Accepted[k].salary_low
              /\ Accepted[j].salary_high = Accepted[k].salary_high
              /\ AcceptedUrl(Accepted[j]) # AcceptedUrl(Accepted[k])

\* C6: while ImprovedJobPipeline scrapes, no record whose job_hash or url is
\* in the snapshot load_existing_data loaded enters raw_jobs, and the store
\* is not touched: one query at start-up, no other read and no write before
\* the storage stage.
C6_SnapshotNeverAccepted ==
    prog = "improved" =>
        /\ "Scrape" \in Range(started) =>
              \A k \in 1..Len(raw_jobs) :
                  /\ raw_jobs[k].job_hash \notin snapshot_hashes
                  /\ raw_jobs[k].url = "" \/ raw_jobs[k].url \notin snapshot_urls
        /\ pc \in {"Scrape", "Url", "Page"} => store_reads = 1 /\ store_writes = 0
        /\ (store_reads > 1 \/ store_writes > 0) => "Persist" \in Range(started)

\* C6 witness: the scrape has ended with nothing accepted although cards
\* were fed: each was dropped for its snapshot hash or its snapshot url.
C6_Witness ==
    /\ prog = "improved"
    /\ "Scrape" \in finished
    /\ snapshot_hashes # {} /\ snapshot_urls # {}
    /\ max_jobs_per_url = NoLimit
    /\ raw_jobs = <<>>
    /\ stats.duplicates_skipped >= 2
    /\ store_reads = 1 /\ store_writes = 0

\* C7: the drivers run the stages in the order Scrape, Refine, Consolidate,
\* Enhance, Persist: the stages started so far are consecutive stages of that
\* order, each at most once, every one but the last has finished, and once a
\* stage has raised the run is over with that stage the last one started.
C7_FixedStageOrder ==
    prog \in {"unified", "improved"} =>
        /\ \A k \in 1..Len(started) - 1 :
              /\ StageIndex(started[k + 1]) = StageIndex(started[k]) + 1
              /\ started[k] \in finished
        /\ started # <<>> =>
              \/ started[1] = "Scrape"
              \/ started[1] = "Refine" /\ prog = "improved" /\ prev_crash # "none"
        /\ finished \subseteq Range(started)
        /\ raised # "none" =>
              /\ pc = "Failed"
              /\ started # <<>> /\ started[Len(started)] = raised
              /\ raised \notin finished

\* C7 witness: the browser launch of the consolidation raised after Scrape
\* and Refine had finished.
C7_Witness ==
    /\ prog = "unified"
    /\ started = <<"Scrape", "Refine", "Consolidate">>
    /\ finished = {"Scrape", "Refine"}
    /\ raised = "Consolidate"
    /\ pc = "Failed"

\* C8: every stage of run_improved_pipeline whose checkpoint file exists when
\* it is reached takes its output from the file instead of running, so a run
\* restarted after a crash in stage k runs no stage before k.
C8_EveryStageResumes ==
    prog = "improved" =>
        /\ recomputed = {}
        /\ prev_crash # "none" =>
              \A k \in 1..Len(started) : StageIndex(started[k]) >= StageIndex(prev_crash)

Terminal == pc \in {"Completed", "Failed", "Aborted", "returned"}

C10_PageErrorConfined ==
    ("nav" \in errors \/ "extract" \in errors) =>
        /\ ~(pc = "Failed" /\ raised = "Scrape")
        /\ (prog = "final" /\ pc = "returned") => current_page = max_pages

\* C15: the refinement stage emits no record with salary_low = 0 or
\* salary_high = 0, so none is among the records the persist stage is handed.
C15_NoZeroSalaryRefined ==
    prog = "unified" =>
        /\ \A k \in 1..Len(refined_jobs) :
              refined_jobs[k].salary_low # 0 /\ refined_jobs[k].salary_high # 0
        /\ \A k \in 1..Len(enhanced_jobs) :
              enhanced_jobs[k].job.salary_low # 0 /\ enhanced_jobs[k].job.salary_high # 0

\* The records the stages after extraction hold
LaterStageRecords ==
    Range(refined_jobs) \cup Range(consolidated_jobs)
        \cup {enhanced_jobs[k].job : k \in 1..Len(enhanced_jobs)}
        \cup {failed_jobs[k].job : k \in 1..Len(failed_jobs)}

\* C23: the job_hash of a record is the one computed at extraction at every
\* later stage of the run: each refined, consolidated, enhanced or failed
\* record is a record of raw_jobs with the job_hash it has there, which is
\* the hash of the fields extraction hashes; and the rows the persist stage
\* writes carry that job_hash.
C23_FingerprintNeverChanges ==
    prog \in {"unified", "improved"} =>
        /\ \A r \in LaterStageRecords :
              /\ r.job_hash = JobHash(prog, r)
              /\ \E raw \in Range(raw_jobs) : raw = r
        /\ ("Persist" \in finished /\ stats.database_stored > 0) =>
              \A k \in 1..Len(enhanced_jobs) :
                  \E row \in db_jobs : row.job_hash = JobHash(prog, enhanced_jobs[k].job)

\* A run of the unified pipeline that stored two records in the jobs table.
C23_Witness ==
    /\ prog = "unified"
    /\ "Persist" \in finished
    /\ Len(raw_jobs) = 2
    /\ Len(enhanced_jobs) = 2
    /\ stats.database_stored = 2

\* C27: at the end of the scrape stage of ImprovedJobPipeline every candidate
\* extracted from a page is in raw_jobs or was counted as a duplicate:
\* raw_scraped + duplicates_skipped is the number of candidates extracted.
C27_EveryCandidateAccounted ==
    (prog = "improved" /\ "Scrape" \in finished) =>
        /\ stats.raw_scraped = Len(raw_jobs)
        /\ stats.raw_scraped + stats.duplicates_skipped = candidates

\* C28: in ImprovedJobPipeline every job_hash and url added to the dedup sets
\* during the run is the job_hash or url of a record in raw_jobs.
C28_RegisteredIsInRawJobs ==
    prog = "improved" =>
        /\ \A h \in existing_job_hashes \ snapshot_hashes :
              \E k \in 1..Len(raw_jobs) : raw_jobs[k].job_hash = h
        /\ \A u \in existing_urls \ snapshot_urls :
              \E k \in 1..Len(raw_jobs) : raw_jobs[k].url = u

\* C29: step3_job_consolidation produces one consolidated record for each
\* refined record, in order and with its job_hash, whether the record has no
\* url, its page scrape succeeds or its page scrape raises.
C29_OneConsolidatedPerRefined ==
    "Consolidate" \in finished =>
        /\ Len(consolidated_jobs) = Len(refined_jobs)
        /\ \A k \in 1..Len(consolidated_jobs) :
              consolidated_jobs[k].job_hash = refined_jobs[k].job_hash

\* Two refined records, one without url and one whose page scrape raised.
C29_Witness ==
    /\ "Consolidate" \in finished
    /\ "job_page" \in errors
    /\ Len(refined_jobs) = 2
    /\ \E k \in 1..2 : refined_jobs[k].url = ""

\* C30: for each search url the page loop of step1_raw_scraping makes at most
\* max_pages passes; with max_jobs_per_url set it adds at most that many
\* records for the url and makes no pass once that many were added.
C30_PageLoopBounded ==
    /\ [](prog \in {"unified", "improved"} =>
            /\ pages_requested <= max_pages
            /\ max_jobs_per_url # NoLimit => jobs_from_url <= max_jobs_per_url)
    /\ [][pages_requested' = pages_requested + 1 =>
            (max_jobs_per_url = NoLimit \/ jobs_from_url < max_jobs_per_url)]_vars

\* The loop over a search url left after one of two pages, with the cap of
\* one record reached by a page that showed two.
C30_Witness ==
    /\ prog = "unified"
    /\ max_jobs_per_url = 1 /\ max_pages = 2
    /\ jobs_from_url = 1 /\ pages_requested = 1 /\ candidates = 2
    /\ pc = "Url"

\* ===========================================================================
\* save_to_database (UnifiedJobPipeline; save_jobs_to_database of
\* ImprovedJobPipeline is the same code) and the three tables it writes
\* ===========================================================================

MaxSaveRuns == 2
MaxSaveJobs == 2

\* enhanced_data, as far as save_to_database writes it to the skill tables
SkillProfiles ==
    { [skills_required |-> <<"python">>, skills_optional |-> <<"sql">>],
      [skills_required |-> <<"go">>, skills_optional |-> <<>>] }

\* job.get('job_hash'): "" stands for a record without one
SaveHashes == {"", "h1", "h2"}

\* The lists of enhanced jobs a run hands to save_to_database: step 2 leaves
\* one record per job_hash
EnhancedLists ==
    { l \in UNION {[1..n -> {EnhancedRecord([job_hash |-> h], p) :
                                h \in SaveHashes, p \in SkillProfiles}] : n \in 1..MaxSaveJobs} :
        \A j, k \in 1..Len(l) : j < k => l[j].job.job_hash # l[k].job.job_hash }

\* What each request to the store does while one record is saved: the lookup
\* of check_existing_job, the update or insert, the two deletes of
\* delete_existing_skills and the two skill inserts. An insert can also
\* succeed and return no row ("no_data").
StoreOutcomes ==
    [lookup : {"ok", "raises"}, write : {"ok", "raises", "no_data"},
     del_req : {"ok", "raises"}, del_opt : {"ok", "raises"},
     ins_req : {"ok", "raises"}, ins_opt : {"ok", "raises"}]

\* A row of the jobs table; id 0 stands for "no row" (None)
JobRow(id, job_hash, created_at, updated_at, profile) ==
    [id |-> id, job_hash |-> job_hash, created_at |-> created_at,
     updated_at |-> updated_at, profile |-> profile]
NoJobRow == JobRow(0, "", 0, 0, [skills_required |-> <<>>, skills_optional |-> <<>>])

\* check_existing_job: the rows the select can return first; an exception is
\* caught and None returned
check_existing_job(table, job_hash, lookup) ==
    LET found == {r \in table : r.job_hash = job_hash}
    IN  IF lookup = "raises" \/ found = {} THEN {NoJobRow} ELSE found

\* `.update(job_record).eq('job_hash', job_hash)`: job_record carries
\* updated_at and the profile, neither id nor created_at
UpdatedRowRestamped(r, job, now) ==
    [r EXCEPT !.created_at = now, !.updated_at = now, !.profile = job.enhanced_data]
UpdatedRow(r, job, now) ==
    [r EXCEPT !.updated_at = now, !.profile = job.enhanced_data]

\* `job_record['created_at'] = now` and `.insert(job_record)`
InsertedRow(id, job, now) == JobRow(id, job.job.job_hash, now, now, job.enhanced_data)

\* The rows of a skill table that are not of the job
WithoutJob(rows, job_id) == SelectSeq(rows, LAMBDA r : r.job_id # job_id)
\* skills_data
SkillRows(job_id, skills) ==
    [k \in 1..Len(skills) |-> [job_id |-> job_id, skill_name |-> skills[k]]]

\* The body of the `for job in self.enhanced_jobs` loop for one record: the
\* tables afterwards, whether database_stored was incremented, and how the
\* record ended.
SaveOne(job, o, existing_job, now) ==
    LET job_hash == job.job.job_hash
        profile == job.enhanced_data
        before == [jobs |-> jobs_table, req |-> job_skills_required,
                   opt |-> job_skills_optional, next_id |-> next_id,
                   counted |-> FALSE, job_id |-> 0, outcome |-> "no_hash"]
        written ==
            IF existing_job.id # 0
            THEN [before EXCEPT
                    !.jobs = {IF r.job_hash = job_hash THEN UpdatedRow(r, job, now) ELSE r :
                                r \in jobs_table},
                    !.job_id = existing_job.id]
            ELSE [before EXCEPT
                    !.jobs = jobs_table \cup {InsertedRow(next_id, job, now)},
                    !.next_id = next_id + 1,
                    !.job_id = IF o.write = "no_data" THEN 0 ELSE next_id]
        deleted ==
            IF o.del_req = "raises" THEN written
            ELSE IF o.del_opt = "raises"
                 THEN [written EXCEPT !.req = WithoutJob(@, written.job_id)]
                 ELSE [written EXCEPT !.req = WithoutJob(@, written.job_id),
                                      !.opt = WithoutJob(@, written.job_id)]
        with_req == [deleted EXCEPT
                       !.req = @ \o SkillRows(written.job_id, profile.skills_required)]
        with_opt == [with_req EXCEPT
                       !.opt = @ \o SkillRows(written.job_id, profile.skills_optional)]
    IN  IF job_hash = "" THEN before
        ELSE IF o.write = "raises" THEN [before EXCEPT !.outcome = "write_raised"]
        ELSE IF written.job_id = 0 THEN [written EXCEPT !.outcome = "no_id"]
        ELSE IF profile.skills_required # <<>> /\ o.ins_req = "raises"
             THEN [deleted EXCEPT !.outcome = "skills_raised"]
        ELSE IF profile.skills_optional # <<>> /\ o.ins_opt = "raises"
             THEN [with_req EXCEPT !.outcome = "skills_raised"]
        ELSE [with_opt EXCEPT !.counted = TRUE, !.outcome = "saved"]

\* A pipeline run reaches step 5 with its enhanced jobs
StartSave ==
    /\ save_pc = "idle"
    /\ save_runs < MaxSaveRuns
    /\ enhanced_jobs' \in EnhancedLists
    /\ failed_jobs' = <<>>
    /\ stats' = InitStats
    /\ save_pos' = 0
    /\ save_pc' = "loop"
    /\ clock' = clock + 1
    /\ save_runs' = save_runs + 1
    /\ save_log' = <<>>
    /\ UNCHANGED <<jobs_table, job_skills_required, job_skills_optional, next_id, latest>>
    /\ UNCHANGED notSave

\* One pass of the loop of save_to_database
SaveJob ==
    /\ save_pc = "loop"
    /\ save_pos < Len(enhanced_jobs)
    /\ LET job == enhanced_jobs[save_pos + 1]
       IN  \E o \in StoreOutcomes :
           \E existing_job \in check_existing_job(jobs_table, job.job.job_hash, o.lookup) :
             LET after == SaveOne(job, o, existing_job, clock)
             IN  /\ jobs_table' = after.jobs
                 /\ job_skills_required' = after.req
                 /\ job_skills_optional' = after.opt
                 /\ next_id' = after.next_id
                 /\ stats' = (IF after.counted
                              THEN [stats EXCEPT !.database_stored = @ + 1] ELSE stats)
                 /\ save_log' = Append(save_log, [job_hash |-> job.job.job_hash,
                                                  outcome |-> after.outcome])
                 /\ latest' = (IF after.outcome = "saved"
                               THEN {e \in latest : e.id # after.job_id}
                                      \cup {[id |-> after.job_id, profile |-> job.enhanced_data]}
                               ELSE IF after.outcome = "skills_raised"
                               THEN {e \in latest : e.id # after.job_id}
                               ELSE latest)
    /\ save_pos' = save_pos + 1
    /\ UNCHANGED <<enhanced_jobs, failed_jobs, save_pc, clock, save_runs>>
    /\ UNCHANGED notSave

\* The loop is over; save_to_database returns
EndSave ==
    /\ save_pc = "loop"
    /\ save_pos >= Len(enhanced_jobs)
    /\ save_pc' = "idle"
    /\ UNCHANGED <<enhanced_jobs, failed_jobs, stats, jobs_table, job_skills_required,
                   job_skills_optional, save_pos, clock, next_id, save_runs, save_log, latest>>
    /\ UNCHANGED notSave

InitSave ==
    /\ SaveIdle
    /\ CallIdle
    /\ enhanced_jobs = <<>>
    /\ failed_jobs = <<>>
    /\ stats = InitStats
    /\ consolidated_jobs = <<>>
    /\ batch_size = 1
    /\ i = 0
    /\ tasks = <<>>
    /\ arrival = <<>>
    /\ request_outcome = <<>>
    /\ gathered = <<>>
    /\ pc4 = "idle"
    /\ RefineIdle
    /\ PipeIdle

NextSave == StartSave \/ SaveJob \/ EndSave

SpecSave == InitSave /\ [][NextSave]_vars


\* ---------------------------------------------------------------- claims

\* C11: every record handed to save_to_database ends stored or listed in
\* failed_jobs with a reason: one without job_hash, or whose update/insert or
\* skill write raised, is in failed_jobs with a non-empty error.
C11_DroppedIsListedFailed ==
    \A k \in 1..Len(save_log) :
        save_log[k].outcome \in {"no_hash", "write_raised", "skills_raised"} =>
            \E f \in 1..Len(failed_jobs) :
                /\ failed_jobs[f].job.job_hash = save_log[k].job_hash
                /\ failed_jobs[f].error # ""

\* C12: after any sequence of runs of save_to_database the jobs table holds
\* at most one row per job_hash.
C12_OneRowPerHash ==
    \A r, q \in jobs_table : r.job_hash = q.job_hash => r.id = q.id

\* The skill names a skill table holds for a job, in insertion order
SkillNames(rows, job_id) ==
    LET mine == SelectSeq(rows, LAMBDA r : r.job_id = job_id)
    IN  [k \in 1..Len(mine) |-> mine[k].skill_name]

\* C13: after a job is saved the two skill tables hold, for its id, exactly
\* the skills of the profile saved last, each once, whatever the delete step did.
C13_SkillsReplaced ==
    \A e \in latest :
        /\ SkillNames(job_skills_required, e.id) = e.profile.skills_required
        /\ SkillNames(job_skills_optional, e.id) = e.profile.skills_optional

\* C14: a save never changes the id or created_at of a row that is already
\* there (an update writes updated_at and the profile), and a row that
\* appears was inserted with created_at = now.
C14_UpdateKeepsIdentity ==
    [][ /\ \A r \in jobs_table :
              \E q \in jobs_table' :
                  q.id = r.id /\ q.created_at = r.created_at /\ q.job_hash = r.job_hash
        /\ \A q \in jobs_table' :
              (\A r \in jobs_table : r.id # q.id) => q.created_at = clock
        /\ Cardinality(jobs_table') >= Cardinality(jobs_table) ]_vars

\* C14 witness: a row inserted by one run was updated by a later one and
\* still carries the created_at of its insert.
C14_Witness ==
    \E r \in jobs_table :
        /\ r.created_at = 1
        /\ r.updated_at = 2
        /\ clock = 2


\* ===========================================================================
\* Functions that keep no state: each is called once on an input drawn from a
\* bounded set, and what it returns is kept in call_ret.
\* ===========================================================================

notCall == <<enhanceVars, refineVars, pipeVars, saveVars>>

\* ---- salary extraction ----------------------------------------------------
\* A text is a sequence of pieces separated by other words.  A piece is one
\* written salary figure: its form says how it is written, low and high are
\* the numbers in it (with thousands separators, as the patterns expect).
\*   "$a to $b"  "$ato$b"  "$a - $b"  "$a ~ $b"
\*   "a to b monthly"  "atob monthly"  "a - b monthly"  "$a" (one number)
SalaryForms ==
    {"$a to $b", "$ato$b", "$a - $b", "$a ~ $b",
     "a to b monthly", "atob monthly", "a - b monthly", "$a"}

SalaryValues == {0, 5000, 7000}

SalaryPiece(form, low, high) == [form |-> form, low |-> low, high |-> high]

\* salary_patterns, in order: the forms each regular expression matches.
\* \s* matches the empty string, so the first and fifth patterns also match
\* the forms written without spaces.
salary_patterns ==
    << {"$a to $b", "$ato$b"},
       {"$a - $b"},
       {"$a ~ $b"},
       {"$ato$b"},
       {"a to b monthly", "atob monthly"},
       {"a - b monthly"},
       {"atob monthly"} >>

\* re.search(pattern, raw_text): the positions of the pieces it matches
SalaryMatches(pattern, raw_text) ==
    {k \in 1..Len(raw_text) : raw_text[k].form \in pattern}

\* `if low != high and low > 0 and high > 0`
GenuineRange(low, high) == low # high /\ low > 0 /\ high > 0

\* The `for pattern in salary_patterns` loop from pattern p on: the pair of
\* the first pattern whose leftmost match is a genuine range; a pattern whose
\* match is not one is passed over.  <<>> is None.
RECURSIVE SalaryLoop(_, _)
SalaryLoop(raw_text, p) ==
    IF p > Len(salary_patterns) THEN <<>>
    ELSE LET m == SalaryMatches(salary_patterns[p], raw_text)
         IN  IF m # {} /\ GenuineRange(raw_text[FirstOf(m)].low, raw_text[FirstOf(m)].high)
             THEN <<raw_text[FirstOf(m)].low, raw_text[FirstOf(m)].high>>
             ELSE SalaryLoop(raw_text, p + 1)

\* DataRefiner.extract_salary_range_from_text
extract_salary_range_from_text(raw_text) == SalaryLoop(raw_text, 1)

\* re.findall(r'\d+(?:,\d{3})*', salary_text.replace(',', '')): the numbers of
\* the text in order
RECURSIVE SalaryNumbers(_)
SalaryNumbers(salary_text) ==
    IF salary_text = <<>> THEN <<>>
    ELSE (IF Head(salary_text).form = "$a"
          THEN <<Head(salary_text).low>>
          ELSE <<Head(salary_text).low, Head(salary_text).high>>)
         \o SalaryNumbers(Tail(salary_text))

\* UnifiedJobPipeline.parse_salary
parse_salary(salary_text) ==
    LET numbers == SalaryNumbers(salary_text)
    IN  IF Len(numbers) >= 2 THEN <<numbers[1], numbers[2]>>
        ELSE IF Len(numbers) = 1 THEN <<numbers[1], numbers[1]>>
        ELSE <<0, 0>>

MaxPieces == 2

SalaryPieces ==
    {SalaryPiece(f, l, h) : f \in SalaryForms \ {"$a"}, l \in SalaryValues, h \in SalaryValues}
        \cup {SalaryPiece("$a", l, l) : l \in SalaryValues}

SalaryTexts == UNION {[1..n -> SalaryPieces] : n \in 0..MaxPieces}

CallExtractSalaryRange ==
    /\ call_fn = "extract_salary_range_from_text" /\ call_pc = "call"
    /\ call_ret' = extract_salary_range_from_text(call_arg)
    /\ call_pc' = "returned"
    /\ UNCHANGED <<call_fn, call_arg>>
    /\ UNCHANGED notCall

CallParseSalary ==
    /\ call_fn = "parse_salary" /\ call_pc = "call"
    /\ call_ret' = parse_salary(call_arg)
    /\ call_pc' = "returned"
    /\ UNCHANGED <<call_fn, call_arg>>
    /\ UNCHANGED notCall

\* The piece a salary range pattern matches first: the leftmost match of the
\* first pattern in order that matches at all.
FirstPatternMatch(raw_text) ==
    LET ps == {p \in 1..Len(salary_patterns) : SalaryMatches(salary_patterns[p], raw_text) # {}}
    IN  IF ps = {} THEN <<>>
        ELSE <<raw_text[FirstOf(SalaryMatches(salary_patterns[FirstOf(ps)], raw_text))]>>

Returned(f) == call_fn = f /\ call_pc = "returned"

\* C16: when the first matching salary range pattern captures two equal
\* values or a non-positive value, salary extraction yields no usable salary:
\* extract_salary_range_from_text returns None and parse_salary (0, 0), never
\* the equal pair and never a pair taken from a later pattern.
C16_RejectedMatchYieldsNoSalary ==
    \A f \in {"extract_salary_range_from_text", "parse_salary"} :
        Returned(f) =>
            LET first == FirstPatternMatch(call_arg)
            IN  (first # <<>> /\ ~GenuineRange(first[1].low, first[1].high))
                    => call_ret \in {<<>>, <<0, 0>>}


\* ---- fix_post_date --------------------------------------------------------
DayCounts == {1, 3, 30}

AgoUnits == {"day", "days", "week", "weeks", "month", "months"}

\* 'N <unit> ago'
AgoText(n, unit) == <<Num(n), Word(unit), Word("ago")>>

FixPostDates ==
    {<<>>, <<Word("today")>>, <<Word("yesterday")>>, <<Word("unknown")>>,
     <<Word("posted"), Num(3), Word("days"), Word("ago")>>,
     <<Word("few"), Word("days"), Word("ago")>>,
     <<DateTok(3)>>, <<DateTok(3), Word("t10:30")>>,
     <<MdyTok(4)>>, <<MdyTok(-1)>>}
        \cup {AgoText(n, u) : n \in DayCounts, u \in AgoUnits}

FixJobs == {[post_date |-> p, scraped_at |-> s] : p \in FixPostDates, s \in ScrapedAts}

CallFixPostDate ==
    /\ call_fn = "fix_post_date" /\ call_pc = "call"
    /\ call_ret' = fix_post_date(call_arg)
    /\ call_pc' = "returned"
    /\ UNCHANGED <<call_fn, call_arg>>
    /\ UNCHANGED notCall

\* C17: for every N >= 1 and every reference date, fix_post_date resolves a
\* post date 'N days ago' or 'N day ago' to the reference date minus N days.
C17_DaysAgoResolved ==
    Returned("fix_post_date") =>
        \A n \in DayCounts, u \in {"day", "days"} :
            call_arg.post_date = AgoText(n, u)
                => call_ret = strftime(ReferenceDate(call_arg.scraped_at) - n)

\* A YYYY-MM-DD string and nothing else
IsYmd(s) == Len(s) = 1 /\ s[1].w = "date"

\* The post dates one of the resolution rules applies to
Resolvable(post_date) ==
    \/ post_date \in {<<Word("today")>>, <<Word("yesterday")>>}
    \/ \E u \in AgoUnits : AgoMatches(post_date, u, u) # {}
    \/ Len(post_date) >= 1 /\ post_date[1].w = "date"
    \/ Len(post_date) = 1 /\ post_date[1].w = "mdy" /\ post_date[1].n >= 0

\* C18: fix_post_date returns a YYYY-MM-DD date and raises nothing for every
\* (post_date, scraped_at) pair; a post_date that no resolution rule applies
\* to resolves to the reference date, which is the current date when
\* scraped_at does not parse.
C18_AlwaysADate ==
    Returned("fix_post_date") =>
        /\ call_ret # OverflowError
        /\ IsYmd(call_ret)
        /\ ~Resolvable(call_arg.post_date)
              => call_ret = strftime(ReferenceDate(call_arg.scraped_at))
        /\ (call_arg.scraped_at = <<>> /\ call_arg.post_date = <<Word("today")>>)
              => call_ret = strftime(today)


\* ---- the validity gate of MyCareersFutureScraper ---------------------------
\* The cards the gate is asked about: every combination of a company, a
\* title and the four additional fields present or missing.
GateCard(company, title, location, job_type, lo, hi, posted_date) ==
    [Blk(company, title, location, lo, hi, "")
        EXCEPT !.job_type = job_type, !.posted_date = posted_date]

GateCards ==
    {GateCard(c, t, l, jt, sal[1], sal[2], pd) :
        c \in {"", "Acme", "Central", "Engineer"},
        t \in {"", "Engineer", "Full Time"},
        l \in {"", "East"},
        jt \in {"", "Full Time"},
        sal \in {<<0, 0>>, <<5000, 7000>>},
        pd \in {"", "Posted today"}}

\* The cards one page shows in the calls of extract_jobs_from_page
PageGateCards ==
    {GateCard("Acme", "Engineer", "East", "", 5000, 7000, ""),
     GateCard("Engineer", "Engineer", "East", "Full Time", 5000, 7000, "Posted today"),
     GateCard("Central", "Engineer", "East", "Full Time", 5000, 7000, "Posted today"),
     GateCard("Acme", "Full Time", "East", "", 0, 0, ""),
     GateCard("Beta", "Analyst", "", "", 0, 0, ""),
     GateCard("", "Engineer", "East", "", 0, 0, "")}

GatePages == UNION {[1..n -> PageGateCards] : n \in 0..MaxPerPage}

CallIsValidJob ==
    /\ call_fn = "is_valid_job" /\ call_pc = "call"
    /\ call_ret' = is_valid_job(FinalJobData(call_arg))
    /\ call_pc' = "returned"
    /\ UNCHANGED <<call_fn, call_arg>>
    /\ UNCHANGED notCall

\* One pass of the page loop of scrape_jobs in a fresh run: the page's job
\* list extract_jobs_from_page returns and the accepted list after
\* `self.jobs_data.extend(new_jobs)`.
CallExtractJobsFromPage ==
    /\ call_fn = "extract_jobs_from_page" /\ call_pc = "call"
    /\ LET page_jobs == extract_jobs_from_page(call_arg, {})
       IN  call_ret' = [page_jobs |-> page_jobs, jobs_data |-> NewJobs(page_jobs, {})]
    /\ call_pc' = "returned"
    /\ UNCHANGED <<call_fn, call_arg>>
    /\ UNCHANGED notCall

\* The two conditions of the company the gate always rejects for
CompanyRejected(card) == card.company = card.title \/ card.company \in LocationKeywords

FourReasons(card) ==
    \/ card.company = "" \/ card.title = ""
    \/ card.company = card.title
    \/ card.company \in LocationKeywords
    \/ card.title \in JobTypeKeywords

\* C20: the gate rejects a record only when company or title is empty,
\* company equals title, company is a bare location token or title is a bare
\* job-type token; every other record is accepted, whichever of location,
\* job type, salary and post date are missing.
C20_OnlyFourReasons ==
    Returned("is_valid_job") => (call_ret = ~FourReasons(call_arg))

\* ---- LLMJobParser (llm_parser.py) ------------------------------------------
\* A string as far as strip() and lower() can tell: its text in lower case
\* without the surrounding blanks, whether it has upper-case letters, and
\* whether it has surrounding blanks.
Str(core, upper, padded) == [core |-> core, upper |-> upper, padded |-> padded]
Plain(core) == Str(core, FALSE, FALSE)
strip(s) == [s EXCEPT !.padded = FALSE]
lower(s) == [s EXCEPT !.upper = FALSE]

\* A raw text: its position in the input file, len(raw_text), and the title
\* of the job it describes
RawText(id, len, title) == [id |-> id, len |-> len, title |-> title]

max_batch_size == 20000

\* `current_batch_size + text_size >= max_batch_size`, a test with >= for >
ReachesBudget(current_batch_size, text_size) ==
    current_batch_size + text_size >= max_batch_size

\* `current_batch_size + text_size > max_batch_size`
ExceedsBudget(current_batch_size, text_size) ==
    current_batch_size + text_size > max_batch_size

\* The `for raw_text in raw_texts` loop of create_batches, and the last batch
RECURSIVE CreateBatchesLoop(_, _, _, _)
CreateBatchesLoop(raw_texts, batches, current_batch, current_batch_size) ==
    IF raw_texts = <<>>
    THEN (IF current_batch # <<>> THEN Append(batches, current_batch) ELSE batches)
    ELSE LET raw_text == Head(raw_texts)
             text_size == raw_text.len
         IN  IF ExceedsBudget(current_batch_size, text_size) /\ current_batch # <<>>
             THEN CreateBatchesLoop(Tail(raw_texts), Append(batches, current_batch),
                                    <<raw_text>>, text_size)
             ELSE CreateBatchesLoop(Tail(raw_texts), batches,
                                    Append(current_batch, raw_text),
                                    current_batch_size + text_size)

\* create_batches
create_batches(raw_texts) == CreateBatchesLoop(raw_texts, <<>>, <<>>, 0)

\* The object the model answers for one raw text, with the scraped_at stamp
\* parse_batch adds
ParsedJob(raw_text) ==
    [company |-> Str("acme", TRUE, FALSE), title |-> Str(raw_text.title, TRUE, FALSE),
     salary_low |-> Plain("6000"), salary_high |-> Plain("8000"),
     raw_text |-> raw_text.id]

ParsedJobs(batch) == [k \in 1..Len(batch) |-> ParsedJob(batch[k])]

\* What a request of parse_batch can end with: the call raises; the content
\* is empty; a JSON array with an object per text; an array that lacks the
\* object of the last text; an array lacking only its closing bracket; an
\* array cut off inside an object; a single JSON object; a JSON value that is
\* neither; text that is no JSON.
Responses ==
    {"raises", "empty", "array", "short_array", "unclosed_array", "cut_array",
     "object", "scalar", "garbage"}

\* parse_batch: the parsed jobs of one request, [] whenever the request
\* raises or its content does not parse (after the closing bracket was added
\* to content that starts with [ and does not end with ])
parse_batch(batch, response) ==
    CASE response = "raises" -> <<>>
      [] response = "empty" -> <<>>
      [] response = "array" -> ParsedJobs(batch)
      [] response = "short_array" -> SubSeq(ParsedJobs(batch), 1, Len(batch) - 1)
      [] response = "unclosed_array" -> ParsedJobs(batch)
      [] response = "cut_array" -> <<>>
      [] response = "object" -> <<ParsedJob(batch[1])>>
      [] response = "scalar" -> <<>>
      [] response = "garbage" -> <<>>

\* dedup_key of deduplicate_jobs
dedup_key(job) ==
    <<lower(strip(job.company)), lower(strip(job.title)),
      strip(job.salary_low), strip(job.salary_high)>>

\* The key with every part lowercased and nothing stripped
LoweredKey(job) ==
    <<lower(job.company), lower(job.title), lower(job.salary_low), lower(job.salary_high)>>

\* deduplicate_jobs: the `for job in jobs` loop
RECURSIVE DedupJobsLoop(_, _)
DedupJobsLoop(jobs, seen_jobs) ==
    IF jobs = <<>> THEN <<>>
    ELSE IF dedup_key(Head(jobs)) \notin seen_jobs
         THEN <<Head(jobs)>> \o DedupJobsLoop(Tail(jobs), seen_jobs \cup {dedup_key(Head(jobs))})
         ELSE DedupJobsLoop(Tail(jobs), seen_jobs)

\* The same loop keeping every job
KeepAllJobs(jobs) == jobs

deduplicate_jobs(jobs) == DedupJobsLoop(jobs, {})

\* A loop that stops at the first batch without results
StopAtFailedBatch(k, n, batch_results) == IF batch_results = <<>> THEN n + 1 ELSE k + 1

\* The batch the `for i, batch in enumerate(batches)` loop goes to after batch
\* number k (from 1) of n gave batch_results: the next one, whatever it gave
AfterBatch(k, n, batch_results) == k + 1

\* parse_raw_texts up to the loop: read_raw_texts and create_batches
ParseRawTextsBegin ==
    /\ call_fn = "parse_raw_texts" /\ call_pc = "call"
    /\ call_ret' = [batches |-> create_batches(call_arg.raw_texts), i |-> 1,
                    all_parsed_jobs |-> <<>>, sent |-> <<>>, per_batch |-> <<>>,
                    deduplicated_jobs |-> <<>>]
    /\ call_pc' = "loop"
    /\ UNCHANGED <<call_fn, call_arg>>
    /\ UNCHANGED notCall

\* One pass of the loop over the batches
ParseRawTextsBatch ==
    /\ call_fn = "parse_raw_texts" /\ call_pc = "loop"
    /\ call_ret.i <= Len(call_ret.batches)
    /\ LET batch == call_ret.batches[call_ret.i]
           batch_results == parse_batch(batch, call_arg.responses[call_ret.i])
       IN  call_ret' = [call_ret EXCEPT
                          !.all_parsed_jobs = @ \o batch_results,
                          !.sent = Append(@, batch),
                          !.per_batch = Append(@, batch_results),
                          !.i = AfterBatch(call_ret.i, Len(call_ret.batches), batch_results)]
    /\ UNCHANGED <<call_fn, call_arg, call_pc>>
    /\ UNCHANGED notCall

\* After the loop: deduplicate_jobs, save_results and the return
ParseRawTextsEnd ==
    /\ call_fn = "parse_raw_texts" /\ call_pc = "loop"
    /\ call_ret.i > Len(call_ret.batches)
    /\ call_ret' = [call_ret EXCEPT !.deduplicated_jobs = deduplicate_jobs(call_ret.all_parsed_jobs)]
    /\ call_pc' = "returned"
    /\ UNCHANGED <<call_fn, call_arg>>
    /\ UNCHANGED notCall

CallCreateBatches ==
    /\ call_fn = "create_batches" /\ call_pc = "call"
    /\ call_ret' = create_batches(call_arg)
    /\ call_pc' = "returned"
    /\ UNCHANGED <<call_fn, call_arg>>
    /\ UNCHANGED notCall

CallDeduplicateJobs ==
    /\ call_fn = "deduplicate_jobs" /\ call_pc = "call"
    /\ call_ret' = deduplicate_jobs(call_arg)
    /\ call_pc' = "returned"
    /\ UNCHANGED <<call_fn, call_arg>>
    /\ UNCHANGED notCall

\* The inputs
MaxTexts == 3
TextLens == {10000, 15000, 25000}
TextTitles == {"engineer", "analyst"}

RawTextLists ==
    UNION {{[k \in 1..n |-> RawText(k, lens[k], "engineer")] : lens \in [1..n -> TextLens]}
            : n \in 0..MaxTexts}

\* The files parse_raw_texts reads, with what each request will end with
ParseInputs ==
    {[raw_texts |-> [k \in 1..Len(ts) |-> RawText(k, lens[k], ts[k])], responses |-> rs] :
        ts \in UNION {[1..n -> TextTitles] : n \in 1..MaxTexts},
        lens \in {[k \in 1..MaxTexts |-> 10000], [k \in 1..MaxTexts |-> 15000]},
        rs \in [1..MaxTexts -> Responses]}

MaxDedupJobs == 3

DedupJobs ==
    {[company |-> c, title |-> Str("engineer", TRUE, FALSE), salary_low |-> lo,
      salary_high |-> Plain("8000")] :
        c \in {Str("acme", TRUE, FALSE), Plain("acme"), Str("acme", TRUE, TRUE),
               Str("beta", TRUE, FALSE)},
        lo \in {Str("n/a", TRUE, FALSE), Plain("n/a"), Plain("6000")}}

DedupLists == UNION {[1..n -> DedupJobs] : n \in 0..MaxDedupJobs}

\* The number of texts in a batch, their total length, and all the texts of
\* a list of batches in order
RECURSIVE TotalLen(_)
TotalLen(batch) == IF batch = <<>> THEN 0 ELSE Head(batch).len + TotalLen(Tail(batch))

RECURSIVE Concat(_)
Concat(lists) == IF lists = <<>> THEN <<>> ELSE Head(lists) \o Concat(Tail(lists))

\* C21: in parse_raw_texts each batch of k records yields exactly k results
\* in input order, each the parsed object of its record or null; a batch
\* whose response does not parse yields k nulls, not nothing.
C21_BatchYieldsOnePerRecord ==
    (call_fn = "parse_raw_texts" /\ call_pc \in {"loop", "returned"}) =>
        \A j \in 1..Len(call_ret.per_batch) :
            /\ Len(call_ret.per_batch[j]) = Len(call_ret.sent[j])
            /\ \A k \in 1..Len(call_ret.per_batch[j]) :
                  call_ret.per_batch[j][k] \in {ParsedJob(call_ret.sent[j][k]), Plain("null")}

\* C22: in parse_raw_texts a batch whose request raises or whose response
\* does not parse stops nothing: a pass of the loop leaves the results
\* collected so far in place and adds its own, and at the return every batch
\* was sent, in order.
C22_FailedBatchStopsNothing ==
    /\ [](Returned("parse_raw_texts") =>
            /\ call_ret.sent = create_batches(call_arg.raw_texts)
            /\ call_ret.all_parsed_jobs = Concat(call_ret.per_batch))
    /\ [][(call_fn = "parse_raw_texts" /\ call_pc = "loop" /\ call_pc' = "loop") =>
            /\ Len(call_ret'.sent) = Len(call_ret.sent) + 1
            /\ call_ret'.all_parsed_jobs
                 = call_ret.all_parsed_jobs
                     \o parse_batch(call_ret.batches[call_ret.i], call_arg.responses[call_ret.i])]_vars

\* parse_raw_texts returned after a first batch that gave nothing and a
\* later batch whose jobs were kept.
C22_Witness ==
    /\ Returned("parse_raw_texts")
    /\ Len(call_ret.per_batch) >= 2
    /\ call_ret.per_batch[1] = <<>>
    /\ call_arg.responses[1] = "cut_array"
    /\ call_ret.all_parsed_jobs # <<>>

\* C24: create_batches splits the texts into consecutive non-empty batches
\* whose concatenation is the input; a batch is closed exactly when the next
\* text would take its length over the budget, so a batch is within the
\* budget unless it is a single text over the budget.
C24_BatchesPartitionWithinBudget ==
    Returned("create_batches") =>
        /\ Concat(call_ret) = call_arg
        /\ \A j \in 1..Len(call_ret) :
              /\ call_ret[j] # <<>>
              /\ TotalLen(call_ret[j]) <= max_batch_size \/ Len(call_ret[j]) = 1
              /\ j < Len(call_ret) =>
                    TotalLen(call_ret[j]) + call_ret[j + 1][1].len > max_batch_size

\* Three texts: the first two fill a batch exactly to the budget and the
\* third was put in a second batch.
C24_Witness ==
    /\ Returned("create_batches")
    /\ Len(call_arg) = 3
    /\ Len(call_ret) = 2
    /\ TotalLen(call_ret[1]) = max_batch_size

\* The jobs from position k on whose key (keys[k] is the key of jobs[k]) no
\* earlier job has
RECURSIVE KeepFirsts(_, _, _)
KeepFirsts(jobs, keys, k) ==
    IF k > Len(jobs) THEN <<>>
    ELSE (IF \E j \in 1..(k - 1) : keys[j] = keys[k] THEN <<>> ELSE <<jobs[k]>>)
         \o KeepFirsts(jobs, keys, k + 1)

DedupKeys(jobs) == [k \in 1..Len(jobs) |-> dedup_key(jobs[k])]
LoweredKeys(jobs) == [k \in 1..Len(jobs) |-> LoweredKey(jobs[k])]

\* C25 as stated: deduplicate_jobs keeps, in order, the first job of each
\* lowercased (company, title, salary_low, salary_high) key; no two jobs of
\* the output have the same such key; a second application changes nothing.
C25_FirstOfEachLoweredKey ==
    Returned("deduplicate_jobs") =>
        /\ call_ret = KeepFirsts(call_arg, LoweredKeys(call_arg), 1)
        /\ \A j, k \in 1..Len(call_ret) :
              LoweredKey(call_ret[j]) = LoweredKey(call_ret[k]) => j = k
        /\ deduplicate_jobs(call_ret) = call_ret

\* C25 amended: the same with the key the loop builds: company and title
\* stripped and lowercased, salary_low and salary_high stripped only.
C25_FirstOfEachDedupKey ==
    Returned("deduplicate_jobs") =>
        /\ call_ret = KeepFirsts(call_arg, DedupKeys(call_arg), 1)
        /\ \A j, k \in 1..Len(call_ret) :
              dedup_key(call_ret[j]) = dedup_key(call_ret[k]) => j = k
        /\ deduplicate_jobs(call_ret) = call_ret

\* Three jobs of which the second differs from the first only in the case
\* and the blanks of its company, and was dropped.
C25_Witness ==
    /\ Returned("deduplicate_jobs")
    /\ Len(call_arg) = 3
    /\ call_arg[1] # call_arg[2]
    /\ dedup_key(call_arg[1]) = dedup_key(call_arg[2])
    /\ Len(call_ret) = 2

\* ---- parse_job_text: the title ---------------------------------------------
\* A text is the sequence of its non-empty stripped lines.
ExperienceKeywords ==
    {"Professional", "Executive", "Senior Executive", "Senior Management", "Junior Executive"}

\* `'TYPICALLY REPLIES' in line or 'REPLIES IN' in line`
RepliesIndicator(line) == line \in {"TYPICALLY REPLIES IN 2 DAYS", "REPLIES IN 1 DAY"}

\* The lines the title loop passes over
SkippedForTitle(line) ==
    \/ RepliesIndicator(line)
    \/ Len(line) < 5
    \/ line \in LocationKeywords
    \/ line \in JobTypeKeywords
    \/ line \in ExperienceKeywords

\* title_candidates after the loop over the lines looked at: the first line
\* that is not passed over, if any
RECURSIVE TitleCandidates(_)
TitleCandidates(looked_at) ==
    IF looked_at = <<>> THEN <<>>
    ELSE IF SkippedForTitle(Head(looked_at)) THEN TitleCandidates(Tail(looked_at))
    ELSE <<Head(looked_at)>>

\* job_data['title'] of UnifiedJobPipeline.parse_job_text: the loop looks at
\* filtered_lines[1:6]; without any line job_data stays empty (<<>>)
UnifiedTitle(filtered_lines) ==
    IF filtered_lines = <<>> THEN <<>>
    ELSE LET title_candidates ==
                 TitleCandidates(SubSeq(filtered_lines, 2, Min(6, Len(filtered_lines))))
         IN  IF title_candidates # <<>> THEN title_candidates
             ELSE IF Len(filtered_lines) > 1 THEN <<filtered_lines[2]>>
             ELSE <<"Unknown">>

\* job_data['title'] of MyCareersFutureScraper.parse_job_text: None (<<>>)
\* for fewer than three lines; the loop looks at lines[1:]
FinalTitle(lines) ==
    IF Len(lines) < 3 THEN <<>>
    ELSE LET title_candidates == TitleCandidates(Tail(lines))
         IN  IF title_candidates # <<>> THEN title_candidates
             ELSE <<lines[2]>>

CallParseJobText ==
    /\ call_fn = "parse_job_text" /\ call_pc = "call"
    /\ call_ret' = UnifiedTitle(call_arg)
    /\ call_pc' = "returned"
    /\ UNCHANGED <<call_fn, call_arg>>
    /\ UNCHANGED notCall

CallFinalParseJobText ==
    /\ call_fn = "final_parse_job_text" /\ call_pc = "call"
    /\ call_ret' = FinalTitle(call_arg)
    /\ call_pc' = "returned"
    /\ UNCHANGED <<call_fn, call_arg>>
    /\ UNCHANGED notCall

MaxCardLines == 3

CardLines ==
    {"TYPICALLY REPLIES IN 2 DAYS", "East", "Central", "Full Time", "Internship",
     "Executive", "Manager", "Remote", "Software Engineer"}

\* Cards of a company line and up to MaxCardLines - 1 more lines, and cards
\* with five skipped lines between the company and the job title
CardTexts ==
    {<<"Acme Pte Ltd">> \o l : l \in UNION {[1..n -> CardLines] : n \in 0..(MaxCardLines - 1)}}
        \cup {<<"Acme Pte Ltd">> \o l \o <<"Software Engineer">> :
                l \in [1..5 -> {"Central", "Full Time"}]}

\* The token lists of the specification's parser section
SpecLocationTokens ==
    {"Islandwide", "Central", "North", "South", "East", "West", "Singapore", "SG",
     "Remote", "Hybrid"}
SpecJobTypeTokens ==
    {"Full Time", "Part Time", "Contract", "Permanent", "Temporary",
     "Full-Time", "Part-Time"}
SpecExperienceTokens ==
    {"Senior Executive", "Executive", "Manager", "Director", "Senior Manager",
     "Assistant Manager", "Entry Level", "Mid Level", "Senior Level"}

QualifiesAsTitle(line) ==
    /\ ~RepliesIndicator(line)
    /\ Len(line) >= 5
    /\ line \notin SpecLocationTokens \cup SpecJobTypeTokens \cup SpecExperienceTokens

\* The title the claim describes
ExpectedTitle(lines) ==
    LET next == {k \in 2..Min(6, Len(lines)) : QualifiesAsTitle(lines[k])}
    IN  IF next # {} THEN <<lines[FirstOf(next)]>>
        ELSE IF Len(lines) >= 2 THEN <<lines[2]>>
        ELSE <<"Unknown">>

\* C26: parse_job_text sets title to the first of the up to five lines after
\* the company line that is no 'typically replies' indicator, has at least 5
\* characters and is no location, job-type or experience-level token of the
\* specification's lists; without such a line the title is the second line,
\* or "Unknown" when there is none.
C26_TitleIsFirstQualifyingLine ==
    \A f \in {"parse_job_text", "final_parse_job_text"} :
        Returned(f) => call_ret = ExpectedTitle(call_arg)

\* ---- the specification of the calls ---------------------------------------
CallInputs(f) ==
    CASE f = "extract_salary_range_from_text" -> SalaryTexts
      [] f = "parse_salary" -> SalaryTexts
      [] f = "fix_post_date" -> FixJobs
      [] f = "is_valid_job" -> GateCards
      [] f = "extract_jobs_from_page" -> GatePages
      [] f = "create_batches" -> RawTextLists
      [] f = "deduplicate_jobs" -> DedupLists
      [] f = "parse_raw_texts" -> ParseInputs
      [] f = "parse_job_text" -> CardTexts
      [] f = "final_parse_job_text" -> CardTexts

CallNames ==
    {"extract_salary_range_from_text", "parse_salary", "fix_post_date", "is_valid_job",
     "extract_jobs_from_page", "create_batches", "deduplicate_jobs", "parse_raw_texts",
     "parse_job_text", "final_parse_job_text"}

InitCalls ==
    /\ call_fn \in CallNames
    /\ call_arg \in CallInputs(call_fn)
    /\ call_ret = <<>>
    /\ call_pc = "call"
    /\ today = 9
    /\ refine_input = <<>>
    /\ refine_output = <<>>
    /\ pcr = "idle"
    /\ EnhanceIdle
    /\ PipeIdle
    /\ SaveIdle

NextCalls ==
    \/ CallExtractSalaryRange
    \/ CallParseSalary
    \/ CallFixPostDate
    \/ CallIsValidJob
    \/ CallExtractJobsFromPage
    \/ CallCreateBatches
    \/ CallDeduplicateJobs
    \/ ParseRawTextsBegin
    \/ ParseRawTextsBatch
    \/ ParseRawTextsEnd
    \/ CallParseJobText
    \/ CallFinalParseJobText

SpecCalls == InitCalls /\ [][NextCalls]_vars

====
